---- MODULE Spec2Model ----
(***************************************************************************)
(* A model of the core of the local search framework: the move functions   *)
(* (ArraySwap, TspArraySwap, ArrayReverseOrder), the evaluation functions  *)
(* for TSP and QAP with their delta evaluation, and the termination        *)
(* criteria.  Python objects are records of their attributes, numpy arrays *)
(* are functions on 0..size-1 and a move (i, j) is the tuple <<i, j>>, so  *)
(* that the Python move[0] and move[1] are m[1] and m[2].                  *)
(***************************************************************************)
EXTENDS Integers, Sequences, FiniteSets

\* ------------------------------------------------------------------------
\* Bounds of the model

\* the largest array size that is explored
MaxSize == 4

\* the largest entry of a distance or flow matrix with a single entry
MaxDist == 1

\* the largest number of list(get_moves()) calls that is recorded
MaxEnumerations == 2

\* the largest max_iterations of a MaxIterationsTerminationCriterion
MaxBound == 3

\* the largest number of iteration_done calls beyond max_iterations
MaxExtra == 2

\* the largest value passed to check_new_value
MaxValue == 2

\* the largest number of check_new_value calls that is recorded
MaxValues == 4

\* the largest number of start_timing and check_variable calls
MaxOthers == 1

\* the largest bound of a NoImprovementTerminationCriterion and of a
\* criterion that is a child of a MultiCriterion
MaxStop == 2

\* the largest number of hook calls that are made outside of a loop
MaxCalls == 2

\* the largest first item of a tuple that is added to a tabu list
MaxItem == 1

\* the largest capacity of a tabu list
MaxCapacity == 2

\* the largest number of add calls on a tabu list
MaxAdds == 4

\* the largest size of the array of a solution object
MaxCities == 3

\* the largest number of sweeps of a search that are explored
MaxSweeps == 4

\* the largest number of trials at one temperature
MaxTrials == 2

\* the largest number of iterations a tabu search or a variable neighbourhood
\* search is allowed
MaxRounds == 3

VARIABLES
    move_func,        \* the move object: its class and its attributes
    order,            \* the live array the moves act on (TspSolution._order)
    calls,            \* history: the last two move / undo_move calls
    enumerations,     \* history: the result of every list(get_moves())
    rnd,              \* the position of a running get_random_move()
    rnd_result,       \* the value returned by the last get_random_move()
    returned,         \* history: every move get_random_move() has returned
    eval_func,        \* the evaluation function object and its matrices
    delta,            \* the last delta_evaluate call and its result
    criterion,        \* the termination criterion object
    loop,             \* the position of the loop the criterion drives
    hooks,            \* history: the calls of the hooks of the criterion
    solution,         \* the solution object: its best-found record
    tabu,             \* the tabu list object
    search,           \* the local variables and position of a running search
    history           \* history: what the claims need of the calls made

\* the variables of the termination criterion and of its caller
termVars == <<criterion, loop, hooks>>

\* the variables of the solution object, the tabu list and the search
searchVars == <<solution, tabu, search, history>>

vars == <<move_func, order, calls, enumerations, rnd, rnd_result, returned,
          eval_func, delta, termVars, searchVars>>

\* ------------------------------------------------------------------------
\* Python values

\* a call that returned value v
Returned(v) == [raised |-> "None", value |-> v]

\* a call that raised the exception e
Raised(e) == [raised |-> e, value |-> <<>>]

\* the elements of a sequence
Range(s) == {s[k] : k \in 1..Len(s)}

\* hasattr(self, name)
HasAttr(self, name) == name \in DOMAIN self

\* the permutations of 0..n-1, as arrays
Orders(n) ==
    {p \in [0..(n - 1) -> 0..(n - 1)] :
        \A a, b \in 0..(n - 1) : (a # b) => (p[a] # p[b])}

\* ------------------------------------------------------------------------
\* ArraySwap

\* ArraySwap(size): __init__ stores the size in the attribute _size
ArraySwap(size) == [class |-> "ArraySwap", _size |-> size]

\* a swap whose two assignments are done one after the other
ArraySwap_move_sequential(array, move) ==
    [array EXCEPT ![move[1]] = array[move[2]]]

\* ArraySwap.move: array[i1], array[i2] = array[i2], array[i1]
ArraySwap_move(array, move) ==
    [array EXCEPT ![move[1]] = array[move[2]], ![move[2]] = array[move[1]]]

\* ArraySwap.undo_move: self.move(array, move)
ArraySwap_undo_move(array, move) == ArraySwap_move(array, move)

\* the two nested loops of get_moves, from the loop position (i, j) on:
\* for i in range(first, size): for j in range(i + 1, size): yield (i, j)
RECURSIVE get_moves_loop(_, _, _, _)
get_moves_loop(i, j, size, yielded) ==
    IF i >= size THEN yielded
    ELSE IF j >= size THEN get_moves_loop(i + 1, i + 2, size, yielded)
    ELSE get_moves_loop(i, j + 1, size, Append(yielded, <<i, j>>))

\* an enumeration whose inner loop starts at i instead of i + 1
RECURSIVE get_moves_loop_from_i(_, _, _, _)
get_moves_loop_from_i(i, j, size, yielded) ==
    IF i >= size THEN yielded
    ELSE IF j >= size THEN get_moves_loop_from_i(i + 1, i + 1, size, yielded)
    ELSE get_moves_loop_from_i(i, j + 1, size, Append(yielded, <<i, j>>))

\* an enumeration that also yields the no-op pairs (i, i)
ArraySwap_get_moves_with_noop(self) ==
    Returned(get_moves_loop_from_i(0, 0, self._size, <<>>))

\* list(ArraySwap.get_moves())
ArraySwap_get_moves(self) == Returned(get_moves_loop(0, 1, self._size, <<>>))

\* the values random.randrange(start, stop) can return
randrange(start, stop) == start..(stop - 1)

\* a return that keeps the pair in the order it was drawn
random_move_result_unordered(i, j) == <<i, j>>

\* the end of get_random_move: if j < i: i, j = j, i; return (i, j)
random_move_result(i, j) == IF j < i THEN <<j, i>> ELSE <<i, j>>

\* ArraySwap.get_random_move as a whole: the moves it can return
ArraySwap_get_random_move(self) ==
    {random_move_result(i, j) :
        <<i, j>> \in {d \in randrange(0, self._size) \X randrange(0, self._size) :
                        d[1] # d[2]}}

\* ------------------------------------------------------------------------
\* TspArraySwap(ArraySwap)

\* TspArraySwap(size): __init__ only calls ArraySwap.__init__(size)
TspArraySwap(size) == [ArraySwap(size) EXCEPT !.class = "TspArraySwap"]

\* list(TspArraySwap.get_moves()): the loops read the attribute self.size
TspArraySwap_get_moves(self) ==
    IF HasAttr(self, "size")
    THEN Returned(get_moves_loop(1, 2, self.size, <<>>))
    ELSE Raised("AttributeError")

\* TspArraySwap.get_random_move as a whole: the draws read self.size
TspArraySwap_get_random_move(self) ==
    IF HasAttr(self, "size")
    THEN {random_move_result(i, j) :
            <<i, j>> \in {d \in randrange(1, self.size) \X randrange(1, self.size) :
                            d[1] # d[2]}}
    ELSE {}

\* ------------------------------------------------------------------------
\* ArrayReverseOrder

\* ArrayReverseOrder(size): __init__ stores the size in the attribute _size
ArrayReverseOrder(size) == [class |-> "ArrayReverseOrder", _size |-> size]

\* the loop of ArrayReverseOrder.move; middle = sum / 2 is a float, so that
\* index_1 < middle is 2 * index_1 < sum
RECURSIVE reverse_loop(_, _, _, _)
reverse_loop(array, index_1, index_2, sum) ==
    IF 2 * index_1 < sum
    THEN reverse_loop(ArraySwap_move(array, <<index_1, index_2>>),
                      index_1 + 1, index_2 - 1, sum)
    ELSE array

\* ArrayReverseOrder.move
ArrayReverseOrder_move(array, move) ==
    reverse_loop(array, move[1], move[2], move[1] + move[2])

\* an undo that reverses a span that is one position shorter
ArrayReverseOrder_undo_move_short(array, move) ==
    reverse_loop(array, move[1], move[2] - 1, move[1] + move[2] - 1)

\* ArrayReverseOrder.undo_move: self.move(array, move)
ArrayReverseOrder_undo_move(array, move) == ArrayReverseOrder_move(array, move)

\* list(ArrayReverseOrder.get_moves())
ArrayReverseOrder_get_moves(self) ==
    Returned(get_moves_loop(0, 1, self._size, <<>>))

\* ArrayReverseOrder.get_random_move as a whole: the moves it can return
ArrayReverseOrder_get_random_move(self) ==
    {random_move_result(i, j) :
        <<i, j>> \in {d \in randrange(0, self._size) \X randrange(0, self._size) :
                        d[1] # d[2]}}

\* ------------------------------------------------------------------------
\* Aid functions of the moves for delta evaluation

\* the pairs of ArraySwap.changed_distances without the wrap-around pair
\* of position 0
ArraySwap_changed_distances_no_wrap(self, move) ==
    UNION {
        (IF order_index # 0
         THEN {<<order_index - 1, order_index>>}
         ELSE {})
        \cup
        {IF order_index # self._size - 1
         THEN <<order_index, order_index + 1>>
         ELSE <<self._size - 1, 0>>}
        : order_index \in {move[1], move[2]}}

\* ArraySwap.changed_distances: for each of the two swapped indices the pair
\* below it and the pair above it, (_size - 1, 0) being the pair that closes
\* the tour
ArraySwap_changed_distances(self, move) ==
    UNION {
        {IF order_index # 0
         THEN <<order_index - 1, order_index>>
         ELSE <<self._size - 1, 0>>,
         IF order_index # self._size - 1
         THEN <<order_index, order_index + 1>>
         ELSE <<self._size - 1, 0>>}
        : order_index \in {move[1], move[2]}}

\* delta_tsp.array_swap_changed_distances(size, move): the same pairs as
\* ArraySwap.changed_distances, for a size that is passed
array_swap_changed_distances(size, move) ==
    UNION {
        {IF order_index # 0
         THEN <<order_index - 1, order_index>>
         ELSE <<size - 1, 0>>,
         IF order_index # size - 1
         THEN <<order_index, order_index + 1>>
         ELSE <<size - 1, 0>>}
        : order_index \in {move[1], move[2]}}

\* one index of ArraySwap.transform_next_index_to_current_index:
\* if x in move: x = move[1] if x == move[0] else move[0]
array_swap_transform_index(x, move) ==
    IF x \in {move[1], move[2]}
    THEN (IF x = move[1] THEN move[2] ELSE move[1])
    ELSE x

\* ArraySwap.transform_next_index_to_current_index
ArraySwap_transform_next_index_to_current_index(frm, to, move) ==
    <<array_swap_transform_index(frm, move),
      array_swap_transform_index(to, move)>>

\* the pairs of ArrayReverseOrder.changed_distances without the pairs inside
\* the reversed span
ArrayReverseOrder_changed_distances_ends_only(self, move) ==
    {IF move[1] = 0
     THEN <<self._size - 1, 0>>
     ELSE <<move[1] - 1, move[1]>>,
     IF move[2] = self._size - 1
     THEN <<self._size - 1, 0>>
     ELSE <<move[2], move[2] + 1>>}

\* ArrayReverseOrder.changed_distances: the pair before the span, the pair
\* after it, and (i, i + 1) for i in range(move[0], move[1])
ArrayReverseOrder_changed_distances(self, move) ==
    {IF move[1] = 0
     THEN <<self._size - 1, 0>>
     ELSE <<move[1] - 1, move[1]>>,
     IF move[2] = self._size - 1
     THEN <<self._size - 1, 0>>
     ELSE <<move[2], move[2] + 1>>}
    \cup {<<i, i + 1>> : i \in move[1]..(move[2] - 1)}

\* a transformation of an index that leaves the last index of the span alone
array_reverse_order_transform_index_exclusive(x, move) ==
    IF x \in move[1]..(move[2] - 1)
    THEN move[2] - (x - move[1])
    ELSE x

\* one index of ArrayReverseOrder.transform_next_index_to_current_index:
\* if x in range(move[0], move[1] + 1): x = move[1] - (x - move[0])
array_reverse_order_transform_index(x, move) ==
    IF x \in move[1]..move[2]
    THEN move[2] - (x - move[1])
    ELSE x

\* ArrayReverseOrder.transform_next_index_to_current_index
ArrayReverseOrder_transform_next_index_to_current_index(frm, to, move) ==
    <<array_reverse_order_transform_index(frm, move),
      array_reverse_order_transform_index(to, move)>>

\* ------------------------------------------------------------------------
\* Method dispatch on the class of the move object

\* self.move(array, move); TspArraySwap inherits ArraySwap.move
move_method(self, array, move) ==
    IF self.class = "ArrayReverseOrder"
    THEN ArrayReverseOrder_move(array, move)
    ELSE ArraySwap_move(array, move)

\* self.undo_move(array, move); TspArraySwap inherits ArraySwap.undo_move
undo_move_method(self, array, move) ==
    IF self.class = "ArrayReverseOrder"
    THEN ArrayReverseOrder_undo_move(array, move)
    ELSE ArraySwap_undo_move(array, move)

\* list(self.get_moves())
get_moves(self) ==
    CASE self.class = "ArraySwap" -> ArraySwap_get_moves(self)
      [] self.class = "TspArraySwap" -> TspArraySwap_get_moves(self)
      [] self.class = "ArrayReverseOrder" -> ArrayReverseOrder_get_moves(self)

\* the moves self.get_random_move() can return
get_random_move(self) ==
    CASE self.class = "ArraySwap" -> ArraySwap_get_random_move(self)
      [] self.class = "TspArraySwap" -> TspArraySwap_get_random_move(self)
      [] self.class = "ArrayReverseOrder" ->
            ArrayReverseOrder_get_random_move(self)

\* the moves a caller can hold: those of get_moves() and get_random_move()
GeneratedMoves(self) == Range(get_moves(self).value) \cup get_random_move(self)

\* self.changed_distances(move)
changed_distances(self, move) ==
    IF self.class = "ArrayReverseOrder"
    THEN ArrayReverseOrder_changed_distances(self, move)
    ELSE ArraySwap_changed_distances(self, move)

\* self.transform_next_index_to_current_index(frm, to, move)
transform_next_index_to_current_index(self, frm, to, move) ==
    IF self.class = "ArrayReverseOrder"
    THEN ArrayReverseOrder_transform_next_index_to_current_index(frm, to, move)
    ELSE ArraySwap_transform_next_index_to_current_index(frm, to, move)

\* ------------------------------------------------------------------------
\* Evaluation functions

\* the sum of term[e] for e in elements, as a loop with value += term[e]
RECURSIVE sum(_, _)
sum(term, elements) ==
    IF elements = {} THEN 0
    ELSE LET e == CHOOSE x \in elements : TRUE
         IN  term[e] + sum(term, elements \ {e})

\* no move function was passed to the constructor
NoMoveFunc == [class |-> "None"]

\* TspEvaluationFunction(distance_matrix, move_function): size is
\* distance_matrix.shape[0]
TspEvaluationFunction(distance_matrix, size, move_function) ==
    [class |-> "TspEvaluationFunction",
     _distance_matrixx |-> distance_matrix,
     _size |-> size,
     move_function |-> move_function]

\* TspEvaluationFunction.evaluate: the distances between consecutive points
\* plus the distance from the last point back to the first
TspEvaluationFunction_evaluate(self, ord) ==
    sum([index \in 0..(self._size - 2) |->
            self._distance_matrixx[ord[index]][ord[index + 1]]],
        0..(self._size - 2))
    + self._distance_matrixx[ord[self._size - 1]][ord[0]]

\* a delta_evaluate that returns 0 when there is no move function
TspEvaluationFunction_delta_evaluate_zero(self, current_order, move) ==
    Returned(0)

\* TspEvaluationFunction.delta_evaluate
TspEvaluationFunction_delta_evaluate(self, current_order, move) ==
    IF self.move_function.class = "None"
    THEN Raised("NotImplementedError")
    ELSE
    LET changed == changed_distances(self.move_function, move)
        current_solution_value ==
            sum([distances \in changed |->
                    self._distance_matrixx[current_order[distances[1]]]
                                          [current_order[distances[2]]]],
                changed)
        next_solution_value ==
            sum([distances \in changed |->
                    LET t == transform_next_index_to_current_index(
                                self.move_function,
                                distances[1], distances[2], move)
                    IN  self._distance_matrixx[current_order[t[1]]]
                                              [current_order[t[2]]]],
                changed)
    IN  Returned(next_solution_value - current_solution_value)

\* QuadraticAssignmentEvaluationFunction(distance_matrix, flow_matrix), used
\* with the aid functions that delta_qap(move_type) returns
QuadraticAssignmentEvaluationFunction(dist, flow, size, move_type) ==
    [class |-> "QuadraticAssignmentEvaluationFunction",
     _size |-> size,
     _distance_matrix |-> dist,
     _flow_matrix |-> flow,
     move_type |-> move_type]

\* QuadraticAssignmentEvaluationFunction.evaluate:
\* for i in range(size): for j in range(i + 1, size): value += ...
QuadraticAssignmentEvaluationFunction_evaluate(self, ord) ==
    LET locations == {p \in (0..(self._size - 1)) \X (0..(self._size - 1)) :
                        p[1] < p[2]}
    IN  sum([p \in locations |->
                self._distance_matrix[p[1]][p[2]]
                * self._flow_matrix[ord[p[1]]][ord[p[2]]]],
            locations)

\* delta_qap.array_swap_changed_distances: the list [move[0], move[1]]
delta_qap_array_swap_changed_distances(move) == <<move[1], move[2]>>

\* delta_qap.array_swap_transform_next_index_to_current_index
delta_qap_array_swap_transform_next_index_to_current_index(position, move) ==
    IF position = move[1] THEN move[2]
    ELSE IF position = move[2] THEN move[1]
    ELSE position

\* delta_qap.delta_evaluate: for every changed location the products of its
\* whole row, before and after the move
delta_qap_delta_evaluate(eval_func_, current_order, move) ==
    LET changed == delta_qap_array_swap_changed_distances(move)
        T(x) == delta_qap_array_swap_transform_next_index_to_current_index(
                    x, move)
        steps == (1..Len(changed)) \X (0..(eval_func_._size - 1))
        current_solution_value ==
            sum([st \in steps |->
                    eval_func_._distance_matrix[changed[st[1]]][st[2]]
                    * eval_func_._flow_matrix[current_order[changed[st[1]]]]
                                             [current_order[st[2]]]],
                steps)
        next_solution_value ==
            sum([st \in steps |->
                    eval_func_._distance_matrix[changed[st[1]]][st[2]]
                    * eval_func_._flow_matrix
                        [current_order[T(changed[st[1]])]]
                        [current_order[T(st[2])]]],
                steps)
    IN  Returned(next_solution_value - current_solution_value)

\* ------------------------------------------------------------------------
\* Numbers: an int, or the float infinity (inf = 1) or -infinity (inf = -1)

Number(x) == [inf |-> 0, num |-> x]

\* float("inf")
PosInf == [inf |-> 1, num |-> 0]

\* float("-inf")
NegInf == [inf |-> -1, num |-> 0]

\* a > b
Greater(a, b) ==
    IF a.inf # b.inf THEN a.inf > b.inf ELSE a.inf = 0 /\ a.num > b.num

\* is_improvement_func.bigger_or_equal: value >= old_value
bigger_or_equal(old_value, value) == ~Greater(old_value, value)

\* is_improvement_func.bigger: value > old_value
bigger(old_value, value) == Greater(value, old_value)

\* a test that also takes a value equal to the old one for a smaller one
smaller_or_same(old_value, value) == ~Greater(value, old_value)

\* is_improvement_func.smaller: value < old_value
smaller(old_value, value) == Greater(old_value, value)

\* ------------------------------------------------------------------------
\* MaxIterationsTerminationCriterion

\* MaxIterationsTerminationCriterion(max_iterations)
MaxIterationsTerminationCriterion(max_iterations) ==
    [class |-> "MaxIterationsTerminationCriterion",
     _max_iterations |-> max_iterations,
     _iterations |-> 0]

\* a test that still runs when _iterations has reached _max_iterations
MaxIterations_keep_running_inclusive(self) ==
    self._iterations <= self._max_iterations

\* MaxIterationsTerminationCriterion.keep_running
MaxIterations_keep_running(self) == self._iterations < self._max_iterations

\* MaxIterationsTerminationCriterion.iteration_done
MaxIterations_iteration_done(self) ==
    [self EXCEPT !._iterations = self._iterations + 1]

\* ------------------------------------------------------------------------
\* MustImproveTerminationCriterion

\* MustImproveTerminationCriterion(improvement_is_bigger)
MustImproveTerminationCriterion(improvement_is_bigger) ==
    [class |-> "MustImproveTerminationCriterion",
     _run |-> TRUE,
     _function |-> IF improvement_is_bigger THEN "bigger" ELSE "smaller",
     _old_best_value |-> IF improvement_is_bigger THEN NegInf ELSE PosInf]

\* MustImproveTerminationCriterion.keep_running
MustImprove_keep_running(self) == self._run

\* MustImproveTerminationCriterion.check_new_value: the object after the call
MustImprove_check_new_value(self, value) ==
    LET check == IF self._function = "bigger"
                 THEN bigger(self._old_best_value, value)
                 ELSE smaller(self._old_best_value, value)
    IN  IF check
        THEN [self EXCEPT !._old_best_value = value]
        ELSE [self EXCEPT !._run = FALSE]

\* ------------------------------------------------------------------------
\* NoImprovementTerminationCriterion

\* NoImprovementTerminationCriterion(max_iterations, improvement_is_bigger)
NoImprovementTerminationCriterion(max_iterations, improvement_is_bigger) ==
    [class |-> "NoImprovementTerminationCriterion",
     _max_iterations |-> max_iterations,
     _iterations |-> 0,
     _function |-> IF improvement_is_bigger THEN "bigger" ELSE "smaller",
     _old_best_value |-> IF improvement_is_bigger THEN NegInf ELSE PosInf]

\* NoImprovementTerminationCriterion.keep_running
NoImprovement_keep_running(self) == self._iterations < self._max_iterations

\* NoImprovementTerminationCriterion.iteration_done
NoImprovement_iteration_done(self) ==
    [self EXCEPT !._iterations = self._iterations + 1]

\* a check_new_value that restarts the count at 0 instead of -1
NoImprovement_check_new_value_reset_0(self, value) ==
    LET check == IF self._function = "bigger"
                 THEN bigger(self._old_best_value, value)
                 ELSE smaller(self._old_best_value, value)
    IN  IF check
        THEN [self EXCEPT !._iterations = 0, !._old_best_value = value]
        ELSE self

\* NoImprovementTerminationCriterion.check_new_value: the object after the
\* call
NoImprovement_check_new_value(self, value) ==
    LET check == IF self._function = "bigger"
                 THEN bigger(self._old_best_value, value)
                 ELSE smaller(self._old_best_value, value)
    IN  IF check
        THEN [self EXCEPT !._iterations = -1, !._old_best_value = value]
        ELSE self

\* ------------------------------------------------------------------------
\* Method dispatch on the class of the termination criterion; the hooks a
\* class does not define are those of AbstractTerminationCriterion: pass

RECURSIVE keep_running(_)
RECURSIVE iteration_done(_)
RECURSIVE check_new_value(_, _)
RECURSIVE start_timing(_)

\* ------------------------------------------------------------------------
\* MultiCriterion.  The attribute criteria is the list of the children;
\* received is not an attribute of the code: it records, for every child, the
\* hooks that were called on it by the methods of the MultiCriterion

\* MultiCriterion(criteria)
MultiCriterion(criteria) ==
    [class |-> "MultiCriterion",
     criteria |-> criteria,
     received |-> [k \in DOMAIN criteria |-> <<>>]]

\* a keep_running that only asks the first criterion of the list
MultiCriterion_keep_running_first(self) ==
    \/ Len(self.criteria) = 0
    \/ keep_running(self.criteria[1])

\* MultiCriterion.keep_running: False as soon as a criterion of the list
\* returns False
MultiCriterion_keep_running(self) ==
    ~ \E k \in DOMAIN self.criteria : keep_running(self.criteria[k]) = FALSE

\* MultiCriterion.iteration_done: the object after the call
MultiCriterion_iteration_done(self) ==
    [self EXCEPT
        !.criteria = [k \in DOMAIN self.criteria |->
                        iteration_done(self.criteria[k])],
        !.received = [k \in DOMAIN self.criteria |->
                        Append(self.received[k], <<"iteration_done">>)]]

\* a check_new_value that skips the last criterion of the list
MultiCriterion_check_new_value_skip_last(self, value) ==
    [self EXCEPT
        !.criteria = [k \in DOMAIN self.criteria |->
                        IF k = Len(self.criteria)
                        THEN self.criteria[k]
                        ELSE check_new_value(self.criteria[k], value)],
        !.received = [k \in DOMAIN self.criteria |->
                        IF k = Len(self.criteria)
                        THEN self.received[k]
                        ELSE Append(self.received[k],
                                    <<"check_new_value", value>>)]]

\* MultiCriterion.check_new_value: the object after the call
MultiCriterion_check_new_value(self, value) ==
    [self EXCEPT
        !.criteria = [k \in DOMAIN self.criteria |->
                        check_new_value(self.criteria[k], value)],
        !.received = [k \in DOMAIN self.criteria |->
                        Append(self.received[k],
                               <<"check_new_value", value>>)]]

\* MultiCriterion.start_timing: the object after the call
MultiCriterion_start_timing(self) ==
    [self EXCEPT
        !.criteria = [k \in DOMAIN self.criteria |->
                        start_timing(self.criteria[k])],
        !.received = [k \in DOMAIN self.criteria |->
                        Append(self.received[k], <<"start_timing">>)]]

\* ------------------------------------------------------------------------
\* The dispatch

\* self.keep_running()
keep_running(self) ==
    CASE self.class = "MaxIterationsTerminationCriterion" ->
            MaxIterations_keep_running(self)
      [] self.class = "MustImproveTerminationCriterion" ->
            MustImprove_keep_running(self)
      [] self.class = "NoImprovementTerminationCriterion" ->
            NoImprovement_keep_running(self)
      [] self.class = "MultiCriterion" ->
            MultiCriterion_keep_running(self)

\* self.iteration_done(): the object after the call
iteration_done(self) ==
    CASE self.class = "MaxIterationsTerminationCriterion" ->
            MaxIterations_iteration_done(self)
      [] self.class = "NoImprovementTerminationCriterion" ->
            NoImprovement_iteration_done(self)
      [] self.class = "MultiCriterion" ->
            MultiCriterion_iteration_done(self)
      [] OTHER -> self

\* self.check_new_value(value): the object after the call
check_new_value(self, value) ==
    CASE self.class = "MustImproveTerminationCriterion" ->
            MustImprove_check_new_value(self, value)
      [] self.class = "NoImprovementTerminationCriterion" ->
            NoImprovement_check_new_value(self, value)
      [] self.class = "MultiCriterion" ->
            MultiCriterion_check_new_value(self, value)
      [] OTHER -> self

\* self.check_variable(variable): the object after the call; no class
\* defines it, MultiCriterion included
check_variable(self, variable) == self

\* self.start_timing(): the object after the call
start_timing(self) ==
    IF self.class = "MultiCriterion"
    THEN MultiCriterion_start_timing(self)
    ELSE self

\* ------------------------------------------------------------------------
\* TabuList.  A tuple is the sequence of its items.  Hashes are only ever
\* compared: the hash of an int is the int, but for -1, whose hash is -2, and
\* the hashes of two tuples are equal iff the hashes of their items are (for
\* the short tuples of small ints that are explored), so that the hash of a
\* tuple is kept as the tuple of the hashes of its items

\* hash(x) for an int x
hash_int(x) == IF x = -1 THEN -2 ELSE x

\* hash(item) for a tuple of ints
hash(item) == [k \in DOMAIN item |-> hash_int(item[k])]

\* collections.deque(maxlen=length)
deque(maxlen) == [maxlen |-> maxlen, items |-> <<>>]

\* deque.append(x): when the deque is full, the item at the other end is
\* discarded
deque_append(d, x) ==
    IF d.maxlen = 0 THEN d
    ELSE IF Len(d.items) = d.maxlen
         THEN [d EXCEPT !.items = Append(Tail(d.items), x)]
         ELSE [d EXCEPT !.items = Append(d.items, x)]

\* TabuList(length)
TabuList(length) == [class |-> "TabuList", _list |-> deque(length)]

\* an add that does not add to a full list
TabuList_add_if_room(self, item) ==
    IF Len(self._list.items) >= self._list.maxlen THEN self
    ELSE [self EXCEPT !._list = deque_append(self._list, hash(item))]

\* TabuList.add: the object after the call
TabuList_add(self, item) ==
    [self EXCEPT !._list = deque_append(self._list, hash(item))]

\* TabuList.contains
TabuList_contains(self, item) ==
    \E k \in DOMAIN self._list.items : self._list.items[k] = hash(item)

\* ------------------------------------------------------------------------
\* TspSolution.  Its attributes _order, _evaluation_function and
\* _move_function are the variables order, eval_func and move_func; the
\* record of the object has the attributes set_as_best sets, which the
\* constructor does not set.  A value that may or may not be the live array
\* itself is a reference: the array _order itself, a new array or a tuple

\* the array self._order itself: its items are those of the live array
TheOrder == [ref |-> "_order"]

\* tuple(array)
tuple(array) ==
    [ref |-> "tuple",
     items |-> [k \in 1..Cardinality(DOMAIN array) |-> array[k - 1]]]

\* numpy.copy(array): a new array with the same items
numpy_copy(array) == [ref |-> "array", items |-> tuple(array).items]

\* the items of the object a reference is to, as a tuple, now that the live
\* array is live
Items(reference, live) ==
    IF reference.ref = "_order" THEN tuple(live).items ELSE reference.items

\* TspSolution(evaluation_function, move_function, size)
TspSolution == [class |-> "TspSolution"]

\* a set_as_best that keeps the array itself
TspSolution_set_as_best_no_copy(self, live, evaluation_value) ==
    [class |-> self.class,
     best_order |-> TheOrder,
     best_order_value |-> evaluation_value]

\* TspSolution.set_as_best: the object after the call
TspSolution_set_as_best(self, live, evaluation_value) ==
    [class |-> self.class,
     best_order |-> numpy_copy(live),
     best_order_value |-> evaluation_value]

\* a state that returns the array itself
TspSolution_state_no_tuple(live) == TheOrder

\* TspSolution.state
TspSolution_state(live) == tuple(live)

\* ------------------------------------------------------------------------
\* The searches.  The values they compute with are Numbers: a sweep of an
\* empty neighbourhood leaves best_found_delta infinite

\* a sum that leaves a finite a as it is
Plus_left(a, b) == a

\* a + b, where not both are infinite
Plus(a, b) ==
    IF a.inf # 0 THEN a
    ELSE IF b.inf # 0 THEN b
    ELSE Number(a.num + b.num)

\* is_improvement_func.smaller_or_equal: value <= old_value
smaller_or_equal(old_value, value) == ~Greater(value, old_value)

\* function(old_value, value) for a function of is_improvement_func
Call(function, old_value, value) ==
    CASE function = "bigger" -> bigger(old_value, value)
      [] function = "smaller" -> smaller(old_value, value)
      [] function = "bigger_or_equal" -> bigger_or_equal(old_value, value)
      [] function = "smaller_or_equal" -> smaller_or_equal(old_value, value)

\* the best-found record of the solution, as a run returns it
Results(solution_, live) ==
    [best_order |-> Items(solution_.best_order, live),
     best_value |-> solution_.best_order_value]

\* ------------------------------------------------------------------------
\* SteepestDescent

\* the termination criterion of a SteepestDescent that is given none
SteepestDescent_default_criterion(minimise) ==
    MustImproveTerminationCriterion(minimise)

\* a SteepestDescent that compares the other way round
SteepestDescent_reversed(minimise, default) ==
    [class |-> "SteepestDescent",
     minimise |-> minimise,
     default |-> default,
     _function |-> IF minimise THEN "bigger" ELSE "smaller",
     _best_found_delta_base_value |-> IF minimise THEN NegInf ELSE PosInf]

\* SteepestDescent(solution, minimise); default tells that no termination
\* criterion was passed
SteepestDescent(minimise, default) ==
    [class |-> "SteepestDescent",
     minimise |-> minimise,
     default |-> default,
     _function |-> IF minimise THEN "smaller" ELSE "bigger",
     _best_found_delta_base_value |-> IF minimise THEN PosInf ELSE NegInf]

\* the for loop of SteepestDescent.run over the moves from the k-th on: the
\* best delta and the best move of the sweep; no move is <<>>
RECURSIVE SteepestDescent_sweep(_, _, _, _, _)
SteepestDescent_sweep(self, moves, k, best_found_delta, best_found_move) ==
    IF k > Len(moves)
    THEN [best_found_delta |-> best_found_delta,
          best_found_move |-> best_found_move]
    ELSE LET delta_ == Number(TspEvaluationFunction_delta_evaluate(
                                eval_func, order, moves[k]).value)
         IN  IF Call(self._function, best_found_delta, delta_)
             THEN SteepestDescent_sweep(self, moves, k + 1, delta_, moves[k])
             ELSE SteepestDescent_sweep(self, moves, k + 1,
                                        best_found_delta, best_found_move)

\* a test that also takes a value equal to the best value for a better one
SteepestDescent_is_new_best_or_equal(self, best_order_value, base_value) ==
    Call(IF self._function = "smaller"
         THEN "smaller_or_equal" ELSE "bigger_or_equal",
         best_order_value, base_value)

\* the test of SteepestDescent.run that decides whether the best move of the
\* sweep is made: self._function(self._solution.best_order_value, base_value)
SteepestDescent_is_new_best(self, best_order_value, base_value) ==
    Call(self._function, best_order_value, base_value)

\* ------------------------------------------------------------------------
\* TabuSearch.  Its attribute _tabu_list is the variable tabu, its
\* _termination_criterion the variable criterion

\* criterion.check_first_value(value): the first value of a run is given to
\* the criterion as every later value is
check_first_value(self, value) == check_new_value(self, value)

\* problem.diff_state(old_state) while the live array is live: the
\* fingerprint of the state the problem is in, which is what is looked up in
\* the tabu list and added to it
diff_state(live, old_state) == TspSolution_state(live).items

\* TabuSearch(problem, termination_criterion, list_size, minimise)
TabuSearch(list_size, minimise) ==
    [class |-> "TabuSearch",
     _list_size |-> list_size,
     _minimise |-> minimise,
     _is_better |-> IF minimise THEN "smaller" ELSE "bigger",
     _best_found_delta_base_value |-> IF minimise THEN PosInf ELSE NegInf]

\* a test that takes a move to a tabu state when its delta is better
TabuSearch_is_best_so_far_any(self, tabu_, diff, best_found_delta, delta_) ==
    Call(self._is_better, best_found_delta, delta_)

\* the test of the for loop of TabuSearch.run:
\* not self._tabu_list.contains(diff_indices)
\*     and self._is_better(best_found_delta, delta)
TabuSearch_is_best_so_far(self, tabu_, diff, best_found_delta, delta_) ==
    /\ ~TabuList_contains(tabu_, diff)
    /\ Call(self._is_better, best_found_delta, delta_)

\* the for loop of TabuSearch.run over the moves from the k-th on, with the
\* live array as the moves and their undoing leave it; no move is <<>>
RECURSIVE TabuSearch_sweep(_, _, _, _, _, _, _)
TabuSearch_sweep(self, old_state, moves, k, live, tabu_, best) ==
    IF k > Len(moves)
    THEN [best EXCEPT !.live = live]
    ELSE LET delta_ == Number(TspEvaluationFunction_delta_evaluate(
                                eval_func, live, moves[k]).value)
             moved == move_method(move_func, live, moves[k])
             diff_indices == diff_state(moved, old_state)
             undone == undo_move_method(move_func, moved, moves[k])
         IN  IF TabuSearch_is_best_so_far(self, tabu_, diff_indices,
                                          best.best_found_delta, delta_)
             THEN TabuSearch_sweep(self, old_state, moves, k + 1, undone,
                    tabu_, [best_found_delta |-> delta_,
                            best_found_move |-> moves[k],
                            best_found_diff |-> diff_indices,
                            live |-> undone])
             ELSE TabuSearch_sweep(self, old_state, moves, k + 1, undone,
                                   tabu_, best)

\* a test that always finds that there is a move
TabuSearch_move_found_always(self, base_value) == TRUE

\* the test of TabuSearch.run that tells whether a move was found:
\* base_value != self._best_found_delta_base_value
TabuSearch_move_found(self, base_value) ==
    base_value # self._best_found_delta_base_value

\* ------------------------------------------------------------------------
\* VariableNeighbourhood.  Its _termination_criterion is the variable
\* criterion; the move function of its solution is a MultiNeighbourhood

\* MultiNeighbourhood(move_funcs): several move functions of one size, of
\* which one is selected at a time
MultiNeighbourhood(move_funcs) ==
    [class |-> "MultiNeighbourhood",
     _move_funcs |-> move_funcs,
     _size |-> move_funcs[1]._size]

\* solution.multi_neighbourhood_size()
multi_neighbourhood_size(self) == Len(self._move_funcs)

\* the move function that select_get_moves(neighbourhood_nr) selects
select(self, neighbourhood_nr) == self._move_funcs[neighbourhood_nr + 1]

\* list(solution.select_get_moves(neighbourhood_nr))
select_get_moves(self, neighbourhood_nr) ==
    get_moves(select(self, neighbourhood_nr))

\* solution.evaluate_move(move) with the move function that is selected
select_evaluate_move(evaluation, self, neighbourhood_nr, live, move) ==
    TspEvaluationFunction_delta_evaluate(
        [evaluation EXCEPT !.move_function = select(self, neighbourhood_nr)],
        live, move)

\* VariableNeighbourhood(solution, termination_criterion, minimise)
VariableNeighbourhood(minimise) ==
    [class |-> "VariableNeighbourhood",
     _function |-> IF minimise THEN "smaller" ELSE "bigger",
     _best_found_delta_base_value |-> IF minimise THEN PosInf ELSE NegInf]

\* the for loop of VariableNeighbourhood.run over the moves from the k-th
\* on: the best delta and the best move of the sweep; no move is <<>>
RECURSIVE VariableNeighbourhood_sweep(_, _, _, _, _, _, _)
VariableNeighbourhood_sweep(self, nr, live, moves, k, best_found_delta, best_found_move) ==
    IF k > Len(moves)
    THEN [best_found_delta |-> best_found_delta,
          best_found_move |-> best_found_move]
    ELSE LET delta_ == Number(select_evaluate_move(
                                eval_func, move_func, nr, live, moves[k]).value)
         IN  IF Call(self._function, best_found_delta, delta_)
             THEN VariableNeighbourhood_sweep(
                    self, nr, live, moves, k + 1, delta_, moves[k])
             ELSE VariableNeighbourhood_sweep(
                    self, nr, live, moves, k + 1,
                    best_found_delta, best_found_move)

\* the new running value of an iteration of VariableNeighbourhood.run
VariableNeighbourhood_base_value(base_value, best_found_delta) ==
    Plus(base_value, best_found_delta)

\* ------------------------------------------------------------------------
\* TspRunner.  kwargs is a function from the names of the keyword arguments
\* that were passed to their values

\* MaxSecondsTerminationCriterion(max_seconds)
MaxSecondsTerminationCriterion(max_seconds) ==
    [class |-> "MaxSecondsTerminationCriterion",
     _start |-> 0, max_seconds |-> max_seconds, _seconds |-> 0]

\* the list criteria of TspRunner.__init__; max_seconds is not passed
TspRunner_criteria(algorithm_type, minimise, kwargs) ==
    (IF "max_iterations" \in DOMAIN kwargs
     THEN <<MaxIterationsTerminationCriterion(kwargs["max_iterations"])>>
     ELSE <<>>)
    \o (IF "max_iter_no_impr" \in DOMAIN kwargs
        THEN <<NoImprovementTerminationCriterion(
                    kwargs["max_iter_no_impr"], minimise)>>
        ELSE <<>>)
    \o (IF algorithm_type = "steepest_descent"
        THEN <<MustImproveTerminationCriterion(TRUE)>>
        ELSE <<>>)

\* the termination criterion that TspRunner.__init__ passes to the algorithm
TspRunner_termination_criterion(algorithm_type, minimise, kwargs) ==
    LET criteria == TspRunner_criteria(algorithm_type, minimise, kwargs)
    IN  IF Len(criteria) = 0 THEN MaxSecondsTerminationCriterion(300)
        ELSE IF Len(criteria) = 1 THEN criteria[1]
        ELSE MultiCriterion(criteria)

\* ------------------------------------------------------------------------
\* Values of the variables a specification does not use

NoEvalFunc == [class |-> "None"]

NotCalled == [raised |-> "NotCalled", value |-> <<>>]

NoDelta == [called |-> FALSE, move |-> <<>>, result |-> NotCalled]

NotRunning == [pc |-> "idle", i |-> 0, j |-> 0]

\* no termination criterion is used
NoCriterion ==
    /\ criterion = [class |-> "None"]
    /\ loop = [pc |-> "exit", count |-> 0]
    /\ hooks = [iteration_done |-> 0, values |-> <<>>, others |-> 0]

\* no solution object, tabu list or search is used
NoSearch ==
    /\ solution = [class |-> "None"]
    /\ tabu = [class |-> "None"]
    /\ search = [pc |-> "idle"]
    /\ history = <<>>

\* the move objects that are explored
MoveFunctions ==
    UNION {{ArraySwap(n), TspArraySwap(n), ArrayReverseOrder(n)} :
            n \in 1..MaxSize}

\* ------------------------------------------------------------------------
\* SpecMove: move and undo_move calls on the live array, in any order, with
\* moves generated by the move object

\* the last two calls, c being the newest
LastTwo(c) == IF Len(calls) < 2 THEN Append(calls, c) ELSE <<calls[2], c>>

InitMove ==
    /\ NoSearch
    /\ move_func \in MoveFunctions
    /\ order \in Orders(move_func._size)
    /\ calls = <<>>
    /\ enumerations = <<>>
    /\ rnd = NotRunning
    /\ rnd_result = NotCalled
    /\ returned = {}
    /\ eval_func = NoEvalFunc
    /\ delta = NoDelta
    /\ NoCriterion

\* TspSolution.move(move): self._move_function.move(self._order, move)
Move(m) ==
    /\ order' = move_method(move_func, order, m)
    /\ calls' = LastTwo([op |-> "move", move |-> m, before |-> order])
    /\ UNCHANGED searchVars
    /\ UNCHANGED <<move_func, enumerations, rnd, rnd_result, returned,
                   eval_func, delta, termVars>>

\* TspSolution.undo_move(move):
\* self._move_function.undo_move(self._order, move)
UndoMove(m) ==
    /\ order' = undo_move_method(move_func, order, m)
    /\ calls' = LastTwo([op |-> "undo_move", move |-> m, before |-> order])
    /\ UNCHANGED searchVars
    /\ UNCHANGED <<move_func, enumerations, rnd, rnd_result, returned,
                   eval_func, delta, termVars>>

NextMove ==
    \/ \E m \in GeneratedMoves(move_func) : Move(m)
    \/ \E m \in GeneratedMoves(move_func) : UndoMove(m)

SpecMove == InitMove /\ [][NextMove]_vars

\* ------------------------------------------------------------------------
\* SpecEnum: the neighbourhood of a move object, enumerated by get_moves()
\* and sampled by get_random_move(), which is followed statement by statement

InitEnum ==
    /\ NoSearch
    /\ move_func \in MoveFunctions
    /\ order = [p \in 0..(move_func._size - 1) |-> p]
    /\ calls = <<>>
    /\ enumerations = <<>>
    /\ rnd = NotRunning
    /\ rnd_result = NotCalled
    /\ returned = {}
    /\ eval_func = NoEvalFunc
    /\ delta = NoDelta
    /\ NoCriterion

\* all_moves = list(move_func.get_moves())
GetMoves ==
    /\ Len(enumerations) < MaxEnumerations
    /\ enumerations' = Append(enumerations, get_moves(move_func))
    /\ UNCHANGED searchVars
    /\ UNCHANGED <<move_func, order, calls, rnd, rnd_result, returned,
                   eval_func, delta, termVars>>

\* get_random_move of ArraySwap and ArrayReverseOrder, the two first draws:
\* i = random.randrange(self._size); j = random.randrange(self._size)
RandomMoveDraw ==
    /\ rnd.pc = "idle"
    /\ move_func.class \in {"ArraySwap", "ArrayReverseOrder"}
    /\ \E i, j \in randrange(0, move_func._size) :
            rnd' = [pc |-> "loop", i |-> i, j |-> j]
    /\ UNCHANGED searchVars
    /\ UNCHANGED <<move_func, order, calls, enumerations, rnd_result,
                   returned, eval_func, delta, termVars>>

\* get_random_move of TspArraySwap, the two first draws:
\* i = random.randrange(1, self.size); j = random.randrange(1, self.size)
TspRandomMoveDraw ==
    /\ rnd.pc = "idle"
    /\ move_func.class = "TspArraySwap"
    /\ IF HasAttr(move_func, "size")
       THEN /\ \E i, j \in randrange(1, move_func.size) :
                    rnd' = [pc |-> "loop", i |-> i, j |-> j]
            /\ UNCHANGED rnd_result
       ELSE /\ rnd_result' = Raised("AttributeError")
            /\ UNCHANGED rnd
    /\ UNCHANGED searchVars
    /\ UNCHANGED <<move_func, order, calls, enumerations, returned,
                   eval_func, delta, termVars>>

\* while i == j: j = random.randrange(self._size)
RandomMoveRedraw ==
    /\ rnd.pc = "loop"
    /\ rnd.i = rnd.j
    /\ \E j \in (IF move_func.class = "TspArraySwap"
                 THEN randrange(1, move_func.size)
                 ELSE randrange(0, move_func._size)) :
            rnd' = [rnd EXCEPT !.j = j]
    /\ UNCHANGED searchVars
    /\ UNCHANGED <<move_func, order, calls, enumerations, rnd_result,
                   returned, eval_func, delta, termVars>>

\* if j < i: i, j = j, i; return (i, j)
RandomMoveReturn ==
    /\ rnd.pc = "loop"
    /\ rnd.i # rnd.j
    /\ rnd_result' = Returned(random_move_result(rnd.i, rnd.j))
    /\ returned' = returned \cup {random_move_result(rnd.i, rnd.j)}
    /\ rnd' = NotRunning
    /\ UNCHANGED searchVars
    /\ UNCHANGED <<move_func, order, calls, enumerations, eval_func, delta,
                   termVars>>

NextEnum ==
    \/ GetMoves
    \/ RandomMoveDraw
    \/ TspRandomMoveDraw
    \/ RandomMoveRedraw
    \/ RandomMoveReturn

SpecEnum == InitEnum /\ [][NextEnum]_vars

\* SpecEnumFair: SpecEnum with a fair random source: a draw of the loop of
\* get_random_move that can give a j other than i gives one in the end, and
\* a call that can return returns
SpecEnumFair ==
    /\ SpecEnum
    /\ SF_vars(RandomMoveRedraw /\ rnd'.j # rnd.i)
    /\ WF_vars(RandomMoveReturn)

\* ------------------------------------------------------------------------
\* SpecDelta: delta evaluation of the moves of the neighbourhood, for TSP
\* with any square matrix and for QAP with symmetric matrices

\* Both evaluate and delta_evaluate are sums of matrix entries, so that two
\* of them that agree on the matrices with a single nonzero entry agree on
\* every matrix.  Explored are these matrices, the zero matrix, and one matrix
\* whose entries all differ.

\* the positions of an array of n items
Positions(n) == 0..(n - 1)

\* the n x n matrix with entry w in cell c and 0 elsewhere
UnitMatrix(n, c, w) ==
    [a \in Positions(n) |-> [b \in Positions(n) |->
        IF <<a, b>> = c THEN w ELSE 0]]

\* an n x n matrix that is not symmetric and whose entries all differ
DenseMatrix(n) ==
    [a \in Positions(n) |-> [b \in Positions(n) |-> a * n + b + 1]]

\* the n x n matrix with distance 1 in the cells of a set and 0 elsewhere
CellsMatrix(n, cells) ==
    [a \in Positions(n) |-> [b \in Positions(n) |->
        IF <<a, b>> \in cells THEN 1 ELSE 0]]

\* the distance matrices that are explored for size n
Matrices(n) ==
    {UnitMatrix(n, c, w) : c \in Positions(n) \X Positions(n), w \in 0..MaxDist}
    \cup {DenseMatrix(n)}

\* the symmetric n x n matrix with entry w in the cells c and c mirrored,
\* which is one cell of the diagonal when c is on it, and 0 elsewhere
SymmetricUnitMatrix(n, c, w) ==
    [a \in Positions(n) |-> [b \in Positions(n) |->
        IF <<a, b>> = c \/ <<b, a>> = c THEN w ELSE 0]]

\* a symmetric n x n matrix with a nonzero diagonal
DenseSymmetricMatrix(n) ==
    [a \in Positions(n) |-> [b \in Positions(n) |->
        IF a <= b THEN a * n + b + 1 ELSE b * n + a + 1]]

\* the symmetric distance matrices that are explored for size n
SymmetricMatrices(n) ==
    {SymmetricUnitMatrix(n, c, w) :
        c \in {d \in Positions(n) \X Positions(n) : d[1] <= d[2]},
        w \in 0..MaxDist}
    \cup {DenseSymmetricMatrix(n)}

\* the symmetric flow matrices that are explored for size n
SymmetricFlowMatrices(n) ==
    {SymmetricUnitMatrix(n, c, 1) :
        c \in {d \in Positions(n) \X Positions(n) : d[1] <= d[2]}}
    \cup {DenseSymmetricMatrix(n)}

\* the TSP evaluation functions that are explored for a move object
TspEvalFunctions(mf) ==
    {TspEvaluationFunction(dm, mf._size, mf) : dm \in Matrices(mf._size)}

\* the QAP evaluation functions that are explored for size n
QapEvalFunctions(n) ==
    {QuadraticAssignmentEvaluationFunction(dm, fm, n, "array_swap") :
        dm \in SymmetricMatrices(n), fm \in SymmetricFlowMatrices(n)}

InitDelta ==
    /\ NoSearch
    /\ move_func \in UNION {{ArraySwap(n), ArrayReverseOrder(n)} :
                            n \in 1..MaxSize}
    /\ eval_func \in TspEvalFunctions(move_func)
    /\ order \in Orders(move_func._size)
    /\ calls = <<>>
    /\ enumerations = <<>>
    /\ rnd = NotRunning
    /\ rnd_result = NotCalled
    /\ returned = {}
    /\ delta = NoDelta
    /\ NoCriterion

\* TspSolution.evaluate_move(move):
\* self._evaluation_function.delta_evaluate(self._order, move)
EvaluateMove(m) ==
    /\ delta' = [called |-> TRUE, move |-> m,
                 result |-> TspEvaluationFunction_delta_evaluate(
                                eval_func, order, m)]
    /\ UNCHANGED searchVars
    /\ UNCHANGED <<move_func, order, calls, enumerations, rnd, rnd_result,
                   returned, eval_func, termVars>>

\* TspSolution.evaluate(): self._evaluation_function.evaluate(self._order)
Evaluate ==
    /\ delta' = [called |-> FALSE, move |-> <<>>,
                 result |-> Returned(
                    TspEvaluationFunction_evaluate(eval_func, order))]
    /\ UNCHANGED searchVars
    /\ UNCHANGED <<move_func, order, calls, enumerations, rnd, rnd_result,
                   returned, eval_func, termVars>>

NextDelta ==
    \/ \E m \in Range(get_moves(move_func).value) : EvaluateMove(m)
    \/ Evaluate

SpecDelta == InitDelta /\ [][NextDelta]_vars

\* ------------------------------------------------------------------------
\* SpecAid: the aid functions for delta evaluation, called for the moves of
\* a move function; search holds the last call and what it returned

InitAid ==
    /\ move_func \in UNION {{ArraySwap(n), ArrayReverseOrder(n)} :
                            n \in 1..MaxSize}
    /\ order \in Orders(move_func._size)
    /\ eval_func = NoEvalFunc
    /\ calls = <<>>
    /\ enumerations = <<>>
    /\ rnd = NotRunning
    /\ rnd_result = NotCalled
    /\ returned = {}
    /\ delta = NoDelta
    /\ NoCriterion
    /\ solution = [class |-> "None"]
    /\ tabu = [class |-> "None"]
    /\ search = [pc |-> "idle", method |-> "None"]
    /\ history = <<>>

\* move_func.changed_distances(move)
AidChangedDistances(m) ==
    /\ search' = [pc |-> "idle", method |-> "changed_distances",
                  move |-> m, result |-> changed_distances(move_func, m)]
    /\ UNCHANGED <<move_func, order, calls, enumerations, rnd, rnd_result,
                   returned, eval_func, delta, termVars, solution, tabu,
                   history>>

\* delta_tsp.array_swap_changed_distances(size, move)
AidArraySwapChangedDistances(m) ==
    /\ move_func.class = "ArraySwap"
    /\ search' = [pc |-> "idle", method |-> "array_swap_changed_distances",
                  move |-> m,
                  result |-> array_swap_changed_distances(move_func._size, m)]
    /\ UNCHANGED <<move_func, order, calls, enumerations, rnd, rnd_result,
                   returned, eval_func, delta, termVars, solution, tabu,
                   history>>

\* move_func.transform_next_index_to_current_index(frm, to, move)
AidTransform(frm, to, m) ==
    /\ search' = [pc |-> "idle",
                  method |-> "transform_next_index_to_current_index",
                  move |-> m, frm |-> frm, to |-> to,
                  result |-> transform_next_index_to_current_index(
                                move_func, frm, to, m)]
    /\ UNCHANGED <<move_func, order, calls, enumerations, rnd, rnd_result,
                   returned, eval_func, delta, termVars, solution, tabu,
                   history>>

NextAid ==
    \/ \E m \in GeneratedMoves(move_func) : AidChangedDistances(m)
    \/ \E m \in GeneratedMoves(move_func) : AidArraySwapChangedDistances(m)
    \/ \E m \in GeneratedMoves(move_func) :
        \E frm \in Positions(move_func._size),
           to \in Positions(move_func._size) : AidTransform(frm, to, m)

SpecAid == InitAid /\ [][NextAid]_vars

\* ------------------------------------------------------------------------
\* SpecNoMove: the calls of SpecDelta on an evaluation function that was
\* constructed without a move function; the moves are those of the move
\* function of the solution

InitNoMove ==
    /\ NoSearch
    /\ move_func \in UNION {{ArraySwap(n), ArrayReverseOrder(n)} :
                            n \in 1..MaxCities}
    /\ eval_func \in {TspEvaluationFunction(dm, move_func._size, NoMoveFunc) :
                        dm \in Matrices(move_func._size)}
    /\ order \in Orders(move_func._size)
    /\ calls = <<>>
    /\ enumerations = <<>>
    /\ rnd = NotRunning
    /\ rnd_result = NotCalled
    /\ returned = {}
    /\ delta = NoDelta
    /\ NoCriterion

SpecNoMove == InitNoMove /\ [][NextDelta]_vars

\* ------------------------------------------------------------------------
\* SpecQap: delta evaluation of the swaps of the neighbourhood for QAP, with
\* symmetric matrices

InitQap ==
    /\ NoSearch
    /\ move_func \in {ArraySwap(n) : n \in 1..MaxSize}
    /\ eval_func \in QapEvalFunctions(move_func._size)
    /\ order \in Orders(move_func._size)
    /\ calls = <<>>
    /\ enumerations = <<>>
    /\ rnd = NotRunning
    /\ rnd_result = NotCalled
    /\ returned = {}
    /\ delta = NoDelta
    /\ NoCriterion

\* the delta evaluation of a QAP evaluation function:
\* delta_evaluate(eval_func, order, move)
QapEvaluateMove(m) ==
    /\ delta' = [called |-> TRUE, move |-> m,
                 result |-> delta_qap_delta_evaluate(eval_func, order, m)]
    /\ UNCHANGED searchVars
    /\ UNCHANGED <<move_func, order, calls, enumerations, rnd, rnd_result,
                   returned, eval_func, termVars>>

\* QuadraticAssignmentEvaluationFunction.evaluate(order)
QapEvaluate ==
    /\ delta' = [called |-> FALSE, move |-> <<>>,
                 result |-> Returned(
                    QuadraticAssignmentEvaluationFunction_evaluate(
                        eval_func, order))]
    /\ UNCHANGED searchVars
    /\ UNCHANGED <<move_func, order, calls, enumerations, rnd, rnd_result,
                   returned, eval_func, termVars>>

NextQap ==
    \/ \E m \in Range(get_moves(move_func).value) : QapEvaluateMove(m)
    \/ QapEvaluate

SpecQap == InitQap /\ [][NextQap]_vars

\* ------------------------------------------------------------------------
\* SpecTerm: a termination criterion that drives the loop
\*     while criterion.keep_running(): criterion.iteration_done()
\* while its other hooks are called at any moment

\* the termination criteria that are explored
Criteria ==
    {MaxIterationsTerminationCriterion(k) : k \in 0..MaxBound}
    \cup {MustImproveTerminationCriterion(b) : b \in BOOLEAN}

InitTerm ==
    /\ NoSearch
    /\ move_func = ArraySwap(1)
    /\ order = [p \in 0..0 |-> p]
    /\ calls = <<>>
    /\ enumerations = <<>>
    /\ rnd = NotRunning
    /\ rnd_result = NotCalled
    /\ returned = {}
    /\ eval_func = NoEvalFunc
    /\ delta = NoDelta
    /\ criterion \in Criteria
    /\ loop = [pc |-> "test", count |-> 0]
    /\ hooks = [iteration_done |-> 0, values |-> <<>>, others |-> 0]

\* while criterion.keep_running():
LoopTest ==
    /\ loop.pc = "test"
    /\ loop' = [loop EXCEPT !.pc = IF keep_running(criterion)
                                   THEN "body" ELSE "exit"]
    /\ UNCHANGED searchVars
    /\ UNCHANGED <<move_func, order, calls, enumerations, rnd, rnd_result,
                   returned, eval_func, delta, criterion, hooks>>

\* the body of the loop: criterion.iteration_done()
LoopBody ==
    /\ loop.pc = "body"
    /\ loop.count < MaxBound + MaxExtra
    /\ criterion' = iteration_done(criterion)
    /\ loop' = [pc |-> "test", count |-> loop.count + 1]
    /\ hooks' = [hooks EXCEPT !.iteration_done = hooks.iteration_done + 1]
    /\ UNCHANGED searchVars
    /\ UNCHANGED <<move_func, order, calls, enumerations, rnd, rnd_result,
                   returned, eval_func, delta>>

\* criterion.iteration_done(), called again after the loop has ended
IterationDoneAfterLoop ==
    /\ loop.pc = "exit"
    /\ hooks.iteration_done < MaxBound + MaxExtra
    /\ criterion' = iteration_done(criterion)
    /\ hooks' = [hooks EXCEPT !.iteration_done = hooks.iteration_done + 1]
    /\ UNCHANGED searchVars
    /\ UNCHANGED <<move_func, order, calls, enumerations, rnd, rnd_result,
                   returned, eval_func, delta, loop>>

\* criterion.check_new_value(value)
CheckNewValue(value) ==
    /\ Len(hooks.values) < MaxValues
    /\ criterion' = check_new_value(criterion, Number(value))
    /\ hooks' = [hooks EXCEPT !.values = Append(hooks.values, value)]
    /\ UNCHANGED searchVars
    /\ UNCHANGED <<move_func, order, calls, enumerations, rnd, rnd_result,
                   returned, eval_func, delta, loop>>

\* criterion.check_variable(variable)
CheckVariable(variable) ==
    /\ hooks.others < MaxOthers
    /\ criterion' = check_variable(criterion, Number(variable))
    /\ hooks' = [hooks EXCEPT !.others = hooks.others + 1]
    /\ UNCHANGED searchVars
    /\ UNCHANGED <<move_func, order, calls, enumerations, rnd, rnd_result,
                   returned, eval_func, delta, loop>>

\* criterion.start_timing()
StartTiming ==
    /\ hooks.others < MaxOthers
    /\ criterion' = start_timing(criterion)
    /\ hooks' = [hooks EXCEPT !.others = hooks.others + 1]
    /\ UNCHANGED searchVars
    /\ UNCHANGED <<move_func, order, calls, enumerations, rnd, rnd_result,
                   returned, eval_func, delta, loop>>

NextTerm ==
    \/ LoopTest
    \/ LoopBody
    \/ IterationDoneAfterLoop
    \/ \E value \in 0..MaxValue : CheckNewValue(value)
    \/ \E variable \in 0..MaxValue : CheckVariable(variable)
    \/ StartTiming

SpecTerm == InitTerm /\ [][NextTerm]_vars

\* ------------------------------------------------------------------------
\* SpecHooks: a NoImprovementTerminationCriterion or a MultiCriterion that
\* either drives the loop
\*     while criterion.keep_running():
\*         criterion.check_new_value(value)
\*         criterion.iteration_done()
\* or has its hooks called in any order (loop.pc = "free").  history.made is
\* the list of the hook calls made on the criterion, history.alone the
\* children of a MultiCriterion as they are when the same hooks are called
\* on each of them directly

\* the criteria a MultiCriterion is built from
Children ==
    {MaxIterationsTerminationCriterion(k) : k \in 1..MaxStop}
    \cup {NoImprovementTerminationCriterion(k, b) :
            k \in 1..MaxStop, b \in BOOLEAN}
    \cup {MustImproveTerminationCriterion(b) : b \in BOOLEAN}

\* the termination criteria that are explored
HookCriteria ==
    {NoImprovementTerminationCriterion(k, b) :
        k \in 0..MaxStop, b \in BOOLEAN}
    \cup {MultiCriterion(<<>>)}
    \cup {MultiCriterion(<<c>>) : c \in Children}
    \cup {MultiCriterion(<<c, d>>) : c \in Children, d \in Children}

InitHooks ==
    /\ move_func = ArraySwap(1)
    /\ order = [p \in 0..0 |-> p]
    /\ calls = <<>>
    /\ enumerations = <<>>
    /\ rnd = NotRunning
    /\ rnd_result = NotCalled
    /\ returned = {}
    /\ eval_func = NoEvalFunc
    /\ delta = NoDelta
    /\ solution = [class |-> "None"]
    /\ tabu = [class |-> "None"]
    /\ search = [pc |-> "idle"]
    /\ criterion \in HookCriteria
    /\ loop \in {[pc |-> "test", count |-> 0], [pc |-> "free", count |-> 0]}
    /\ hooks = [iteration_done |-> 0, values |-> <<>>, others |-> 0]
    /\ history = [made |-> <<>>,
                  alone |-> IF criterion.class = "MultiCriterion"
                            THEN criterion.criteria ELSE <<>>]

\* what a step of SpecHooks leaves alone
HooksFrame ==
    UNCHANGED <<move_func, order, calls, enumerations, rnd, rnd_result,
                returned, eval_func, delta, solution, tabu, search>>

\* criterion.check_new_value(value), from the loop or outside of it
HookCheckNewValue(value) ==
    /\ criterion' = check_new_value(criterion, Number(value))
    /\ hooks' = [hooks EXCEPT !.values = Append(hooks.values, value)]
    /\ history' =
        [made |-> Append(history.made, <<"check_new_value", Number(value)>>),
         alone |-> [k \in DOMAIN history.alone |->
                        check_new_value(history.alone[k], Number(value))]]

\* criterion.iteration_done(), from the loop or outside of it
HookIterationDone ==
    /\ criterion' = iteration_done(criterion)
    /\ hooks' = [hooks EXCEPT !.iteration_done = hooks.iteration_done + 1]
    /\ history' =
        [made |-> Append(history.made, <<"iteration_done">>),
         alone |-> [k \in DOMAIN history.alone |->
                        iteration_done(history.alone[k])]]

\* while criterion.keep_running():
HooksLoopTest ==
    /\ loop.pc = "test"
    /\ loop' = [loop EXCEPT !.pc = IF keep_running(criterion)
                                   THEN "check" ELSE "exit"]
    /\ UNCHANGED <<criterion, hooks, history>>
    /\ HooksFrame

\* the first statement of the body of the loop
HooksLoopCheckNewValue(value) ==
    /\ loop.pc = "check"
    /\ Len(hooks.values) < MaxValues
    /\ HookCheckNewValue(value)
    /\ loop' = [loop EXCEPT !.pc = "done"]
    /\ HooksFrame

\* the last statement of the body of the loop
HooksLoopIterationDone ==
    /\ loop.pc = "done"
    /\ HookIterationDone
    /\ loop' = [pc |-> "test", count |-> loop.count + 1]
    /\ HooksFrame

\* criterion.check_new_value(value) outside of a loop
FreeCheckNewValue(value) ==
    /\ loop.pc = "free"
    /\ loop.count < MaxCalls
    /\ HookCheckNewValue(value)
    /\ loop' = [loop EXCEPT !.count = loop.count + 1]
    /\ HooksFrame

\* criterion.iteration_done() outside of a loop
FreeIterationDone ==
    /\ loop.pc = "free"
    /\ loop.count < MaxCalls
    /\ HookIterationDone
    /\ loop' = [loop EXCEPT !.count = loop.count + 1]
    /\ HooksFrame

\* criterion.start_timing() outside of a loop
FreeStartTiming ==
    /\ loop.pc = "free"
    /\ loop.count < MaxCalls
    /\ criterion' = start_timing(criterion)
    /\ hooks' = [hooks EXCEPT !.others = hooks.others + 1]
    /\ history' =
        [made |-> Append(history.made, <<"start_timing">>),
         alone |-> [k \in DOMAIN history.alone |->
                        start_timing(history.alone[k])]]
    /\ loop' = [loop EXCEPT !.count = loop.count + 1]
    /\ HooksFrame

\* criterion.check_variable(variable) outside of a loop
FreeCheckVariable(variable) ==
    /\ loop.pc = "free"
    /\ loop.count < MaxCalls
    /\ criterion' = check_variable(criterion, Number(variable))
    /\ hooks' = [hooks EXCEPT !.others = hooks.others + 1]
    /\ history' =
        [made |-> Append(history.made,
                         <<"check_variable", Number(variable)>>),
         alone |-> [k \in DOMAIN history.alone |->
                        check_variable(history.alone[k], Number(variable))]]
    /\ loop' = [loop EXCEPT !.count = loop.count + 1]
    /\ HooksFrame

NextHooks ==
    \/ HooksLoopTest
    \/ \E value \in 0..MaxValue : HooksLoopCheckNewValue(value)
    \/ HooksLoopIterationDone
    \/ \E value \in 0..MaxValue : FreeCheckNewValue(value)
    \/ FreeIterationDone
    \/ FreeStartTiming
    \/ \E variable \in 0..MaxValue : FreeCheckVariable(variable)

SpecHooks == InitHooks /\ [][NextHooks]_vars

\* ------------------------------------------------------------------------
\* SpecTabu: add and contains calls on a tabu list; history is the list of
\* the items that were added

\* the items that are added to a tabu list
TabuItems == {<<a, 0>> : a \in (-2)..MaxItem}

InitTabu ==
    /\ move_func = ArraySwap(1)
    /\ order = [p \in 0..0 |-> p]
    /\ calls = <<>>
    /\ enumerations = <<>>
    /\ rnd = NotRunning
    /\ rnd_result = NotCalled
    /\ returned = {}
    /\ eval_func = NoEvalFunc
    /\ delta = NoDelta
    /\ NoCriterion
    /\ solution = [class |-> "None"]
    /\ search = [pc |-> "idle"]
    /\ tabu \in {TabuList(length) : length \in 0..MaxCapacity}
    /\ history = <<>>

\* tabu.add(item)
TabuAdd(item) ==
    /\ Len(history) < MaxAdds
    /\ tabu' = TabuList_add(tabu, item)
    /\ history' = Append(history, item)
    /\ search' = [pc |-> "idle"]
    /\ UNCHANGED <<move_func, order, calls, enumerations, rnd, rnd_result,
                   returned, eval_func, delta, termVars, solution>>

\* tabu.contains(item)
TabuContains(item) ==
    /\ search' = [pc |-> "idle", item |-> item,
                  contains |-> TabuList_contains(tabu, item)]
    /\ UNCHANGED <<move_func, order, calls, enumerations, rnd, rnd_result,
                   returned, eval_func, delta, termVars, solution, tabu,
                   history>>

NextTabu ==
    \/ \E item \in TabuItems : TabuAdd(item)
    \/ \E item \in TabuItems : TabuContains(item)

SpecTabu == InitTabu /\ [][NextTabu]_vars

\* ------------------------------------------------------------------------
\* SpecSolution: the methods of a TspSolution, called in any order.
\* history.last is the method that was called last, history.best the live
\* array and the value at the last set_as_best, history.captured the last
\* value state() has returned with the live array at that moment

\* the values that are passed to set_as_best
BestValues == {0, TspEvaluationFunction_evaluate(eval_func, order)}

InitSolution ==
    /\ move_func \in {ArraySwap(n) : n \in 1..MaxCities}
                    \cup {ArrayReverseOrder(n) : n \in 1..(MaxCities - 1)}
    /\ eval_func = TspEvaluationFunction(
                        DenseMatrix(move_func._size), move_func._size,
                        move_func)
    /\ order = [p \in Positions(move_func._size) |-> p]
    /\ calls = <<>>
    /\ enumerations = <<>>
    /\ rnd = NotRunning
    /\ rnd_result = NotCalled
    /\ returned = {}
    /\ delta = NoDelta
    /\ NoCriterion
    /\ solution = TspSolution
    /\ tabu = [class |-> "None"]
    /\ search = [pc |-> "idle"]
    /\ history = [last |-> "__init__", best |-> <<>>, captured |-> <<>>]

\* what a step of SpecSolution leaves alone; of the values the methods have
\* returned, the last one is kept
SolutionFrame(method, delta_, rnd_result_, enumerations_) ==
    /\ history' = [history EXCEPT !.last = method]
    /\ delta' = delta_
    /\ rnd_result' = rnd_result_
    /\ enumerations' = enumerations_
    /\ UNCHANGED <<move_func, calls, rnd, returned, eval_func, termVars,
                   tabu, search>>

\* solution.move(move)
SolutionMove(m) ==
    /\ order' = move_method(move_func, order, m)
    /\ UNCHANGED solution
    /\ SolutionFrame("move", NoDelta, NotCalled, <<>>)

\* solution.undo_move(move)
SolutionUndoMove(m) ==
    /\ order' = undo_move_method(move_func, order, m)
    /\ UNCHANGED solution
    /\ SolutionFrame("undo_move", NoDelta, NotCalled, <<>>)

\* list(solution.get_moves())
SolutionGetMoves ==
    /\ UNCHANGED <<order, solution>>
    /\ SolutionFrame("get_moves", NoDelta, NotCalled,
                     <<get_moves(move_func)>>)

\* solution.get_random_move()
SolutionGetRandomMove ==
    /\ \E result \in get_random_move(move_func) :
            SolutionFrame("get_random_move", NoDelta, Returned(result),
                          <<>>)
    /\ UNCHANGED <<order, solution>>

\* solution.evaluate_move(move)
SolutionEvaluateMove(m) ==
    /\ UNCHANGED <<order, solution>>
    /\ SolutionFrame("evaluate_move",
                     [called |-> TRUE, move |-> m,
                      result |-> TspEvaluationFunction_delta_evaluate(
                                    eval_func, order, m)],
                     NotCalled, <<>>)

\* solution.evaluate()
SolutionEvaluate ==
    /\ UNCHANGED <<order, solution>>
    /\ SolutionFrame("evaluate",
                     [called |-> FALSE, move |-> <<>>,
                      result |-> Returned(TspEvaluationFunction_evaluate(
                                    eval_func, order))],
                     NotCalled, <<>>)

\* solution.set_as_best(evaluation_value)
SolutionSetAsBest(evaluation_value) ==
    /\ solution' = TspSolution_set_as_best(solution, order, evaluation_value)
    /\ history' = [last |-> "set_as_best",
                   best |-> <<[order |-> order, value |-> evaluation_value]>>,
                   captured |-> history.captured]
    /\ delta' = NoDelta
    /\ rnd_result' = NotCalled
    /\ enumerations' = <<>>
    /\ UNCHANGED <<order, move_func, calls, rnd, returned, eval_func,
                   termVars, tabu, search>>

\* solution.state()
SolutionState ==
    /\ history' = [last |-> "state",
                   best |-> history.best,
                   captured |-> <<[fingerprint |-> TspSolution_state(order),
                                   order |-> order]>>]
    /\ delta' = NoDelta
    /\ rnd_result' = NotCalled
    /\ enumerations' = <<>>
    /\ UNCHANGED <<order, solution, move_func, calls, rnd, returned,
                   eval_func, termVars, tabu, search>>

NextSolution ==
    \/ \E m \in GeneratedMoves(move_func) : SolutionMove(m)
    \/ \E m \in GeneratedMoves(move_func) : SolutionUndoMove(m)
    \/ SolutionGetMoves
    \/ SolutionGetRandomMove
    \/ \E m \in GeneratedMoves(move_func) : SolutionEvaluateMove(m)
    \/ SolutionEvaluate
    \/ \E evaluation_value \in BestValues :
            SolutionSetAsBest(evaluation_value)
    \/ SolutionState

SpecSolution == InitSolution /\ [][NextSolution]_vars

\* ------------------------------------------------------------------------
\* SpecDescent: SteepestDescent.run on a TspSolution.  search holds the
\* object, the position in run, its local variables base_value and iteration
\* and what it has raised or returned; history holds the number of sweeps
\* and, of the last sweep, the best delta and move with the live array, the
\* running value and the best-found record as they were before it; hooks
\* holds the calls of the hooks of the criterion

\* the distance matrix of the examples of minimising
ExampleMatrix ==
    [a \in Positions(4) |-> [b \in Positions(4) |->
        << <<0, 2, 5, 8>>, <<2, 0, 4, 1>>,
           <<5, 4, 0, 7>>, <<8, 1, 7, 0>> >>[a + 1][b + 1]]]

\* the move function, the evaluation function and the starting order of the
\* example of minimising
ExampleProblem ==
    /\ move_func = TspArraySwap(4)
    /\ eval_func = TspEvaluationFunction(ExampleMatrix, 4, move_func)
    /\ order = [p \in Positions(4) |-> p]

\* the problems that are explored
Problems ==
    \/ /\ move_func \in UNION {{ArraySwap(n), TspArraySwap(n),
                                ArrayReverseOrder(n)} : n \in 1..MaxCities}
       /\ eval_func \in TspEvalFunctions(move_func)
       /\ order \in Orders(move_func._size)
    \/ ExampleProblem
    \/ /\ move_func \in {ArraySwap(4), ArrayReverseOrder(4)}
       /\ eval_func \in
            {TspEvaluationFunction(dm, 4, move_func) :
                dm \in {ExampleMatrix,
                        CellsMatrix(4, {<<0, 1>>, <<2, 1>>, <<2, 3>>})}}
       /\ order \in Orders(4)

InitDescent ==
    /\ Problems
    /\ calls = <<>>
    /\ enumerations = <<>>
    /\ rnd = NotRunning
    /\ rnd_result = NotCalled
    /\ returned = {}
    /\ delta = NoDelta
    /\ loop = [pc |-> "exit", count |-> 0]
    /\ hooks = [iteration_done |-> 0, values |-> <<>>, others |-> 0]
    /\ solution = TspSolution
    /\ tabu = [class |-> "None"]
    /\ \E minimise \in BOOLEAN :
        \/ /\ search = [pc |-> "start",
                        self |-> SteepestDescent(minimise, TRUE),
                        base_value |-> Number(0), iteration |-> 0]
           /\ criterion = SteepestDescent_default_criterion(minimise)
        \/ /\ search = [pc |-> "start",
                        self |-> SteepestDescent(minimise, FALSE),
                        base_value |-> Number(0), iteration |-> 0]
           /\ criterion \in {MaxIterationsTerminationCriterion(k) :
                                k \in 1..MaxStop}
    /\ history = [sweeps |-> 0, last |-> <<>>]

\* what a step of SpecDescent leaves alone
DescentFrame ==
    UNCHANGED <<move_func, eval_func, calls, enumerations, rnd, rnd_result,
                returned, delta, loop, tabu>>

\* SteepestDescent.run up to the main loop
DescentStart ==
    /\ search.pc = "start"
    /\ LET base_value == Number(TspEvaluationFunction_evaluate(
                                    eval_func, order))
       IN  /\ solution' = TspSolution_set_as_best(solution, order, base_value)
           /\ criterion' = start_timing(check_new_value(criterion, base_value))
           /\ hooks' = [hooks EXCEPT !.values = Append(@, base_value),
                                     !.others = @ + 1]
           /\ search' = [search EXCEPT !.pc = "test",
                                       !.base_value = base_value]
    /\ UNCHANGED <<order, history>>
    /\ DescentFrame

\* while self._termination_criterion.keep_running():
DescentTest ==
    /\ search.pc = "test"
    /\ search' = [search EXCEPT !.pc = IF keep_running(criterion)
                                       THEN "body" ELSE "return"]
    /\ UNCHANGED <<order, solution, criterion, history, hooks>>
    /\ DescentFrame

\* the body of the main loop when get_moves() raises: run raises it
DescentRaise ==
    /\ search.pc = "body"
    /\ get_moves(move_func).raised # "None"
    /\ search' = [search EXCEPT !.pc = "raised"]
    /\ history' = [history EXCEPT !.last = <<>>]
    /\ UNCHANGED <<order, solution, criterion, hooks>>
    /\ DescentFrame

\* the body of the main loop: the sweep, the new base_value, the move and
\* the hooks of the termination criterion
DescentIteration ==
    /\ search.pc = "body"
    /\ search.iteration < MaxSweeps
    /\ get_moves(move_func).raised = "None"
    /\ LET self == search.self
           best == SteepestDescent_sweep(
                        self, get_moves(move_func).value, 1,
                        self._best_found_delta_base_value, <<>>)
           base_value == Plus(search.base_value, best.best_found_delta)
           is_new_best == SteepestDescent_is_new_best(
                            self, solution.best_order_value, base_value)
           moved == IF is_new_best
                    THEN move_method(move_func, order, best.best_found_move)
                    ELSE order
       IN  /\ order' = moved
           /\ solution' =
                IF is_new_best
                THEN TspSolution_set_as_best(solution, moved, base_value)
                ELSE solution
           /\ criterion' =
                iteration_done(check_new_value(criterion, base_value))
           /\ hooks' = [hooks EXCEPT !.values = Append(@, base_value),
                                     !.iteration_done = @ + 1]
           /\ search' = [search EXCEPT !.pc = "test",
                                       !.base_value = base_value,
                                       !.iteration = search.iteration + 1]
           /\ history' =
                [sweeps |-> history.sweeps + 1,
                 last |-> <<[best_found_delta |-> best.best_found_delta,
                             best_found_move |-> best.best_found_move,
                             order |-> order,
                             base_value |-> search.base_value,
                             best |-> Results(solution, order)]>>]
    /\ DescentFrame

\* return Results(best_order, best_order_value, data)
DescentReturn ==
    /\ search.pc = "return"
    /\ search' = [pc |-> "returned", self |-> search.self,
                  base_value |-> search.base_value,
                  iteration |-> search.iteration,
                  result |-> Results(solution, order)]
    /\ UNCHANGED <<order, solution, criterion, history, hooks>>
    /\ DescentFrame

NextDescent ==
    \/ DescentStart
    \/ DescentTest
    \/ DescentRaise
    \/ DescentIteration
    \/ DescentReturn

SpecDescent == InitDescent /\ [][NextDescent]_vars

\* ------------------------------------------------------------------------
\* SimulatedAnnealing.  A temperature is the fraction num / den with den > 0

\* SimulatedAnnealingAcceptanceFunction(diff_multiplier)
SimulatedAnnealingAcceptanceFunction(diff_multiplier) ==
    [class |-> "SimulatedAnnealingAcceptanceFunction",
     _diff_multiplier |-> diff_multiplier,
     _multiplier |-> 1]

\* SimulatedAnnealingAcceptanceFunction.accept, for a temperature above 0:
\* the values it can return.  The probability is e to the power
\* -(_diff_multiplier * delta_value) / temperature; random.random() is in
\* [0, 1[, so that a probability of 1 or more is always accepted and a smaller
\* one is accepted or not
SimulatedAnnealingAcceptanceFunction_accept(self, delta_value, temperature) ==
    IF self._diff_multiplier * delta_value * temperature.num > 0
    THEN {TRUE, FALSE}
    ELSE {TRUE}

\* GeometricCoolingFunction(alpha), alpha = 0.75 by default
GeometricCoolingFunction ==
    [class |-> "GeometricCoolingFunction", _alpha |-> [num |-> 3, den |-> 4]]

\* a cooling function that leaves the temperature as it is
GeometricCoolingFunction_next_temperature_same(self, old_temperature) ==
    old_temperature

\* GeometricCoolingFunction.next_temperature
GeometricCoolingFunction_next_temperature(self, old_temperature) ==
    [num |-> self._alpha.num * old_temperature.num,
     den |-> self._alpha.den * old_temperature.den]

\* an iterations_for_temp_f that returns the same number for every
\* temperature
CnstIterationsTempFunction(iterations) ==
    [class |-> "CnstIterationsTempFunction", _iterations |-> iterations]

\* CnstIterationsTempFunction.get_iterations
CnstIterationsTempFunction_get_iterations(self, temperature) ==
    self._iterations

\* a SimulatedAnnealing that sends a move that changes nothing to the
\* acceptance function
SimulatedAnnealing_strict(minimise, iterations_for_temp_f) ==
    [class |-> "SimulatedAnnealing",
     minimise |-> minimise,
     _cooling_function |-> GeometricCoolingFunction,
     _iterations_for_temp_f |-> iterations_for_temp_f,
     _temperature |-> [num |-> 2000, den |-> 1],
     _is_improvement |-> IF minimise THEN "smaller" ELSE "bigger",
     _is_better |-> IF minimise THEN "smaller" ELSE "bigger",
     _acceptance_function |->
        SimulatedAnnealingAcceptanceFunction(IF minimise THEN 1 ELSE -1)]

\* SimulatedAnnealing(solution, termination_criterion, cooling_function,
\* iterations_for_temp_f, start_temperature=2000, minimise)
SimulatedAnnealing(minimise, iterations_for_temp_f) ==
    [class |-> "SimulatedAnnealing",
     minimise |-> minimise,
     _cooling_function |-> GeometricCoolingFunction,
     _iterations_for_temp_f |-> iterations_for_temp_f,
     _temperature |-> [num |-> 2000, den |-> 1],
     _is_improvement |-> IF minimise THEN "smaller_or_equal"
                                     ELSE "bigger_or_equal",
     _is_better |-> IF minimise THEN "smaller" ELSE "bigger",
     _acceptance_function |->
        SimulatedAnnealingAcceptanceFunction(IF minimise THEN 1 ELSE -1)]

\* ------------------------------------------------------------------------
\* SpecAnneal: SimulatedAnnealing.run on a TspSolution, with a
\* MaxIterationsTerminationCriterion.  search holds the object, the position
\* in run and its local variables base_value and iterations; history holds
\* the number of trials and, of the last trial, the move, its delta, whether
\* the acceptance function was called and what it returned, with the live
\* array, the running value and the best-found record as they were before
\* it, the number of trials made at the current temperature (level) and the
\* values that were passed to check_variable (variables); hooks holds the
\* values passed to check_new_value and the numbers of calls of
\* iteration_done and of start_timing and check_variable

\* the problems that are explored: the starting order is numpy.arange(size)
AnnealProblems ==
    /\ move_func \in UNION {{ArraySwap(n), TspArraySwap(n),
                             ArrayReverseOrder(n)} : n \in 2..MaxCities}
    /\ eval_func \in
        {TspEvaluationFunction(dm, move_func._size, move_func) :
            dm \in {DenseMatrix(move_func._size)}
                   \cup {UnitMatrix(move_func._size, <<1, 0>>, w) :
                            w \in 0..MaxDist}}
    /\ order = [p \in Positions(move_func._size) |-> p]

InitAnnealWith(criteria) ==
    /\ AnnealProblems
    /\ calls = <<>>
    /\ enumerations = <<>>
    /\ rnd = NotRunning
    /\ rnd_result = NotCalled
    /\ returned = {}
    /\ delta = NoDelta
    /\ loop = [pc |-> "exit", count |-> 0]
    /\ hooks = [iteration_done |-> 0, values |-> <<>>, others |-> 0]
    /\ solution = TspSolution
    /\ tabu = [class |-> "None"]
    /\ criterion \in criteria
    /\ \E minimise \in BOOLEAN, iterations \in 1..MaxTrials :
        search = [pc |-> "start",
                  self |-> SimulatedAnnealing(
                            minimise, CnstIterationsTempFunction(iterations)),
                  base_value |-> Number(0),
                  iterations |-> 0]
    /\ history = [trials |-> 0, last |-> <<>>, level |-> 0,
                  variables |-> <<>>]

InitAnneal ==
    InitAnnealWith({MaxIterationsTerminationCriterion(k) : k \in 1..MaxStop})

\* what a step of SpecAnneal leaves alone
AnnealFrame ==
    UNCHANGED <<move_func, eval_func, calls, enumerations, rnd, rnd_result,
                returned, delta, loop, tabu>>

\* SimulatedAnnealing.run up to the main loop
AnnealStart ==
    /\ search.pc = "start"
    /\ LET base_value == Number(TspEvaluationFunction_evaluate(
                                    eval_func, order))
       IN  /\ solution' = TspSolution_set_as_best(solution, order, base_value)
           /\ criterion' = start_timing(check_new_value(criterion, base_value))
           /\ hooks' = [hooks EXCEPT !.values = Append(@, base_value),
                                     !.others = @ + 1]
           /\ search' = [search EXCEPT !.pc = "test",
                                       !.base_value = base_value]
    /\ UNCHANGED <<order, history>>
    /\ AnnealFrame

\* while self._termination_criterion.keep_running(): with the number of
\* iterations of the temperature
AnnealTest ==
    /\ search.pc = "test"
    /\ search' =
        IF keep_running(criterion)
        THEN [search EXCEPT
                !.pc = "trials",
                !.iterations = CnstIterationsTempFunction_get_iterations(
                                search.self._iterations_for_temp_f,
                                search.self._temperature)]
        ELSE [search EXCEPT !.pc = "return"]
    /\ UNCHANGED <<order, solution, criterion, history, hooks>>
    /\ AnnealFrame

\* while iterations > 0 and self._termination_criterion.keep_running():
AnnealGoesOn == search.iterations > 0 /\ keep_running(criterion)

\* get_random_move() raises
AnnealRaise ==
    /\ search.pc = "trials"
    /\ AnnealGoesOn
    /\ move_func.class = "TspArraySwap"
    /\ ~HasAttr(move_func, "size")
    /\ search' = [search EXCEPT !.pc = "raised"]
    /\ history' = [history EXCEPT !.last = <<>>]
    /\ UNCHANGED <<order, solution, criterion, hooks>>
    /\ AnnealFrame

\* a trial: the body of the inner loop
AnnealTrial ==
    /\ search.pc = "trials"
    /\ AnnealGoesOn
    /\ \E move \in get_random_move(move_func) :
        LET self == search.self
            delta_ == TspEvaluationFunction_delta_evaluate(
                        eval_func, order, move).value
            improvement == Call(self._is_improvement,
                                Number(0), Number(delta_))
        IN  \E accepted \in
                IF improvement THEN {TRUE}
                ELSE SimulatedAnnealingAcceptanceFunction_accept(
                        self._acceptance_function, delta_, self._temperature) :
            LET moved == IF accepted
                         THEN move_method(move_func, order, move)
                         ELSE order
                base_value == IF accepted
                              THEN Plus(search.base_value, Number(delta_))
                              ELSE search.base_value
            IN  /\ order' = moved
                /\ solution' =
                    IF improvement /\ Call(self._is_better,
                                           solution.best_order_value,
                                           base_value)
                    THEN TspSolution_set_as_best(solution, moved, base_value)
                    ELSE solution
                /\ criterion' =
                    iteration_done(check_new_value(criterion, base_value))
                /\ hooks' = [hooks EXCEPT
                                !.values = Append(@, base_value),
                                !.iteration_done = @ + 1]
                /\ search' = [search EXCEPT
                                !.base_value = base_value,
                                !.iterations = search.iterations - 1]
                /\ history' =
                    [trials |-> history.trials + 1,
                     last |-> <<[move |-> move,
                                 delta |-> delta_,
                                 consulted |-> ~improvement,
                                 accepted |-> accepted,
                                 order |-> order,
                                 base_value |-> search.base_value,
                                 best |-> Results(solution, order)]>>,
                     level |-> history.level + 1,
                     variables |-> history.variables]
    /\ AnnealFrame

\* after the inner loop: the temperature is lowered
AnnealCool ==
    /\ search.pc = "trials"
    /\ ~AnnealGoesOn
    /\ LET temperature == GeometricCoolingFunction_next_temperature(
                            search.self._cooling_function,
                            search.self._temperature)
       IN  /\ search' = [search EXCEPT !.pc = "test",
                                       !.self._temperature = temperature]
           /\ criterion' = check_variable(criterion, temperature)
           /\ hooks' = [hooks EXCEPT !.others = @ + 1]
           /\ history' = [history EXCEPT
                            !.level = 0,
                            !.variables = Append(@, temperature)]
    /\ UNCHANGED <<order, solution>>
    /\ AnnealFrame

\* return Results(best_order, best_order_value)
AnnealReturn ==
    /\ search.pc = "return"
    /\ search' = [pc |-> "returned", self |-> search.self,
                  base_value |-> search.base_value,
                  iterations |-> search.iterations,
                  result |-> Results(solution, order)]
    /\ UNCHANGED <<order, solution, criterion, history, hooks>>
    /\ AnnealFrame

NextAnneal ==
    \/ AnnealStart
    \/ AnnealTest
    \/ AnnealRaise
    \/ AnnealTrial
    \/ AnnealCool
    \/ AnnealReturn

SpecAnneal == InitAnneal /\ [][NextAnneal]_vars

\* ------------------------------------------------------------------------
\* SpecTabuSearch: TabuSearch.run on a TspSolution with a
\* MaxIterationsTerminationCriterion.  search holds the object, the position
\* in run and its local variables; history holds the number of iterations
\* and, of the last one, the move that was found with the live array, the
\* running value, the tabu list and the best-found record of before it, and
\* the states that were committed, in order; hooks holds the calls of the
\* hooks of the criterion

InitTabuSearchWith(criteria) ==
    /\ move_func \in UNION {{ArraySwap(n), TspArraySwap(n),
                             ArrayReverseOrder(n)} : n \in 1..MaxCities}
    /\ eval_func \in TspEvalFunctions(move_func)
    /\ order = [p \in Positions(move_func._size) |-> p]
    /\ calls = <<>>
    /\ enumerations = <<>>
    /\ rnd = NotRunning
    /\ rnd_result = NotCalled
    /\ returned = {}
    /\ delta = NoDelta
    /\ loop = [pc |-> "exit", count |-> 0]
    /\ hooks = [iteration_done |-> 0, values |-> <<>>, others |-> 0]
    /\ solution = TspSolution
    /\ criterion \in criteria
    /\ \E list_size \in 0..MaxCapacity, minimise \in BOOLEAN :
        /\ tabu = TabuList(list_size)
        /\ search = [pc |-> "start",
                     self |-> TabuSearch(list_size, minimise),
                     base_value |-> Number(0), iteration |-> 0]
    /\ history = [sweeps |-> 0, last |-> <<>>, committed |-> <<>>]

InitTabuSearch ==
    InitTabuSearchWith({MaxIterationsTerminationCriterion(k) :
                            k \in 1..MaxRounds})

\* TabuSearch.run up to the main loop
TabuSearchStart ==
    /\ search.pc = "start"
    /\ LET base_value == Number(TspEvaluationFunction_evaluate(
                                    eval_func, order))
       IN  /\ solution' = TspSolution_set_as_best(solution, order, base_value)
           /\ criterion' =
                start_timing(check_first_value(criterion, base_value))
           /\ hooks' = [hooks EXCEPT !.values = Append(@, base_value),
                                     !.others = @ + 1]
           /\ search' = [search EXCEPT !.pc = "test",
                                       !.base_value = base_value]
    /\ UNCHANGED <<order, tabu, history>>
    /\ UNCHANGED <<move_func, eval_func, calls, enumerations, rnd, rnd_result,
                   returned, delta, loop>>

\* while self._termination_criterion.keep_running():
TabuSearchTest ==
    /\ search.pc = "test"
    /\ search' = [search EXCEPT !.pc = IF keep_running(criterion)
                                       THEN "body" ELSE "return"]
    /\ UNCHANGED <<order, solution, criterion, tabu, history>>
    /\ UNCHANGED <<move_func, eval_func, calls, enumerations, rnd, rnd_result,
                   returned, delta, loop, hooks>>

\* the body of the main loop when get_moves() raises: run raises it
TabuSearchRaise ==
    /\ search.pc = "body"
    /\ get_moves(move_func).raised # "None"
    /\ search' = [search EXCEPT !.pc = "raised"]
    /\ history' = [history EXCEPT !.last = <<>>]
    /\ UNCHANGED <<order, solution, criterion, tabu>>
    /\ UNCHANGED <<move_func, eval_func, calls, enumerations, rnd, rnd_result,
                   returned, delta, loop, hooks>>

\* the body of the main loop: the sweep, then the move that was found with
\* the calls that follow it, or the break; a move that is None raises
TabuSearchIteration ==
    /\ search.pc = "body"
    /\ get_moves(move_func).raised = "None"
    /\ LET self == search.self
           old_state == TspSolution_state(order)
           best == TabuSearch_sweep(
                    self, old_state, get_moves(move_func).value, 1, order,
                    tabu, [best_found_delta |->
                                self._best_found_delta_base_value,
                           best_found_move |-> <<>>,
                           best_found_diff |-> <<>>,
                           live |-> order])
           base_value == Plus(search.base_value, best.best_found_delta)
           found == TabuSearch_move_found(self, base_value)
           moved == move_method(move_func, best.live, best.best_found_move)
           last == <<[best_found_move |-> best.best_found_move,
                      order |-> order,
                      base_value |-> search.base_value,
                      tabu |-> tabu,
                      best |-> Results(solution, order)]>>
       IN  /\ history' =
                [sweeps |-> history.sweeps + 1,
                 last |-> last,
                 committed |->
                    IF found /\ best.best_found_move # <<>>
                    THEN Append(history.committed,
                                TspSolution_state(moved).items)
                    ELSE history.committed]
           /\ IF ~found
              THEN /\ order' = best.live
                   /\ search' = [search EXCEPT !.pc = "return",
                                               !.base_value = base_value]
                   /\ UNCHANGED <<solution, tabu, criterion, hooks>>
              ELSE IF best.best_found_move = <<>>
              THEN /\ order' = best.live
                   /\ search' = [search EXCEPT !.pc = "raised",
                                               !.base_value = base_value]
                   /\ UNCHANGED <<solution, tabu, criterion, hooks>>
              ELSE /\ order' = moved
                   /\ solution' =
                        IF Call(self._is_better, solution.best_order_value,
                                base_value)
                        THEN TspSolution_set_as_best(
                                solution, moved, base_value)
                        ELSE solution
                   /\ tabu' = TabuList_add(tabu, best.best_found_diff)
                   /\ criterion' =
                        iteration_done(check_new_value(
                            check_new_value(criterion, base_value),
                            base_value))
                   /\ hooks' = [hooks EXCEPT
                                !.values = Append(Append(@, base_value),
                                                  base_value),
                                !.iteration_done = @ + 1]
                   /\ search' = [search EXCEPT
                                    !.pc = "test",
                                    !.base_value = base_value,
                                    !.iteration = search.iteration + 1]
    /\ UNCHANGED <<move_func, eval_func, calls, enumerations, rnd, rnd_result,
                   returned, delta, loop>>

\* return Results(best_order, best_order_value, data)
TabuSearchReturn ==
    /\ search.pc = "return"
    /\ search' = [pc |-> "returned", self |-> search.self,
                  base_value |-> search.base_value,
                  iteration |-> search.iteration,
                  result |-> Results(solution, order)]
    /\ UNCHANGED <<order, solution, criterion, tabu, history>>
    /\ UNCHANGED <<move_func, eval_func, calls, enumerations, rnd, rnd_result,
                   returned, delta, loop, hooks>>

NextTabuSearch ==
    \/ TabuSearchStart
    \/ TabuSearchTest
    \/ TabuSearchRaise
    \/ TabuSearchIteration
    \/ TabuSearchReturn

SpecTabuSearch == InitTabuSearch /\ [][NextTabuSearch]_vars

\* ------------------------------------------------------------------------
\* SpecSearches: the runs of SpecDescent and the runs of SpecTabuSearch

InitSearches == InitDescent \/ InitTabuSearch

NextSearches ==
    \/ search.self.class = "SteepestDescent" /\ NextDescent
    \/ search.self.class = "TabuSearch" /\ NextTabuSearch

SpecSearches == InitSearches /\ [][NextSearches]_vars

\* ------------------------------------------------------------------------
\* SpecVns: VariableNeighbourhood.run on a TspSolution with a
\* MultiNeighbourhood of swaps and reversals and a
\* MaxIterationsTerminationCriterion.  search holds the object, the position
\* in run and its local variables; history holds the number of iterations
\* and, of the last one, the best move of the sweep and its delta with the
\* neighbourhood, the live array, the running value and the best-found
\* record of before it

\* the distance matrices that are explored for size n
VnsMatrices(n) ==
    {DenseMatrix(n),
     CellsMatrix(n, {<<0, 1>>, <<0, 2>>, <<1, 0>>, <<1, 3>>, <<2, 1>>}),
     CellsMatrix(n, {<<0, 1>>, <<0, 2>>, <<1, 0>>, <<1, 3>>, <<2, 1>>,
                     <<2, 3>>, <<3, 2>>})}

\* the lists of one or two neighbourhoods of size n
Neighbourhoods(n) ==
    LET classes == {ArraySwap(n), ArrayReverseOrder(n)}
    IN  {<<a>> : a \in classes} \cup (classes \X classes)

InitVnsWith(criteria) ==
    /\ \E n \in 2..MaxSize :
        /\ move_func \in {MultiNeighbourhood(fs) : fs \in Neighbourhoods(n)}
        /\ eval_func \in {TspEvaluationFunction(dm, n, move_func) :
                            dm \in VnsMatrices(n)}
        /\ order \in Orders(n)
    /\ calls = <<>>
    /\ enumerations = <<>>
    /\ rnd = NotRunning
    /\ rnd_result = NotCalled
    /\ returned = {}
    /\ delta = NoDelta
    /\ loop = [pc |-> "exit", count |-> 0]
    /\ hooks = [iteration_done |-> 0, values |-> <<>>, others |-> 0]
    /\ solution = TspSolution
    /\ tabu = [class |-> "None"]
    /\ criterion \in criteria
    /\ \E minimise \in BOOLEAN :
        search = [pc |-> "start",
                  self |-> VariableNeighbourhood(minimise),
                  base_value |-> Number(0),
                  neighbourhoods_amount |-> 0,
                  current_neighbourhood |-> 0]
    /\ history = [sweeps |-> 0, last |-> <<>>]

InitVns ==
    InitVnsWith({MaxIterationsTerminationCriterion(k) : k \in 1..MaxRounds})

\* what a step of SpecVns leaves alone
VnsFrame ==
    UNCHANGED <<move_func, eval_func, calls, enumerations, rnd, rnd_result,
                returned, delta, loop, tabu>>

\* VariableNeighbourhood.run up to the main loop
VnsStart ==
    /\ search.pc = "start"
    /\ LET base_value == Number(TspEvaluationFunction_evaluate(
                                    eval_func, order))
       IN  /\ solution' = TspSolution_set_as_best(solution, order, base_value)
           /\ criterion' = start_timing(check_new_value(criterion, base_value))
           /\ hooks' = [hooks EXCEPT !.values = Append(@, base_value),
                                     !.others = @ + 1]
           /\ search' = [search EXCEPT
                            !.pc = "test",
                            !.base_value = base_value,
                            !.neighbourhoods_amount =
                                multi_neighbourhood_size(move_func),
                            !.current_neighbourhood = 0]
    /\ UNCHANGED <<order, history>>
    /\ VnsFrame

\* while self._termination_criterion.keep_running():
VnsTest ==
    /\ search.pc = "test"
    /\ search' = [search EXCEPT !.pc = IF keep_running(criterion)
                                       THEN "body" ELSE "return"]
    /\ UNCHANGED <<order, solution, criterion, history, hooks>>
    /\ VnsFrame

\* the body of the main loop: the sweep of the current neighbourhood, the
\* new base_value, then the move or the change of neighbourhood, and the
\* hooks of the termination criterion
VnsIteration ==
    /\ search.pc = "body"
    /\ history.sweeps < MaxSweeps
    /\ LET self == search.self
           nr == search.current_neighbourhood
           best == VariableNeighbourhood_sweep(
                        self, nr, order,
                        select_get_moves(move_func, nr).value, 1,
                        self._best_found_delta_base_value, <<>>)
           base_value == VariableNeighbourhood_base_value(
                            search.base_value, best.best_found_delta)
           is_new_best == Call(self._function,
                               solution.best_order_value, base_value)
           moved == IF is_new_best
                    THEN move_method(select(move_func, nr), order,
                                     best.best_found_move)
                    ELSE order
       IN  /\ order' = moved
           /\ solution' =
                IF is_new_best
                THEN TspSolution_set_as_best(solution, moved, base_value)
                ELSE solution
           /\ criterion' =
                iteration_done(check_new_value(criterion, base_value))
           /\ hooks' = [hooks EXCEPT !.values = Append(@, base_value),
                                     !.iteration_done = @ + 1]
           /\ search' = [search EXCEPT
                            !.pc = "test",
                            !.base_value = base_value,
                            !.current_neighbourhood =
                                IF is_new_best THEN nr
                                ELSE (nr + 1) % search.neighbourhoods_amount]
           /\ history' =
                [sweeps |-> history.sweeps + 1,
                 last |-> <<[best_found_delta |-> best.best_found_delta,
                             best_found_move |-> best.best_found_move,
                             neighbourhood |-> nr,
                             order |-> order,
                             base_value |-> search.base_value,
                             best |-> Results(solution, order)]>>]
    /\ VnsFrame

\* return Results(best_order, best_order_value, data)
VnsReturn ==
    /\ search.pc = "return"
    /\ search' = [search EXCEPT !.pc = "returned"]
    /\ UNCHANGED <<order, solution, criterion, history, hooks>>
    /\ VnsFrame

NextVns ==
    \/ VnsStart
    \/ VnsTest
    \/ VnsIteration
    \/ VnsReturn

SpecVns == InitVns /\ [][NextVns]_vars

\* ------------------------------------------------------------------------
\* SpecRunner: the termination criterion that TspRunner builds, in the loop
\* 'while keep_running(): check_new_value(v); iteration_done()' of an
\* algorithm.  search holds the arguments of TspRunner

\* the keyword arguments that are explored: max_iter_no_impr, with or
\* without max_iterations
RunnerKwargs ==
    {[name \in {"max_iter_no_impr"} |-> n] : n \in 0..MaxStop}
    \cup {[name \in {"max_iter_no_impr", "max_iterations"} |->
              IF name = "max_iterations" THEN k ELSE n] :
            n \in 0..MaxStop, k \in 1..MaxStop}

InitRunner ==
    /\ move_func = ArraySwap(1)
    /\ order = [p \in 0..0 |-> p]
    /\ calls = <<>>
    /\ enumerations = <<>>
    /\ rnd = NotRunning
    /\ rnd_result = NotCalled
    /\ returned = {}
    /\ eval_func = NoEvalFunc
    /\ delta = NoDelta
    /\ solution = [class |-> "None"]
    /\ tabu = [class |-> "None"]
    /\ \E algorithm_type \in {"simulated_annealing", "steepest_descent"},
          minimise \in BOOLEAN, kwargs \in RunnerKwargs :
        /\ search = [pc |-> "idle", algorithm_type |-> algorithm_type,
                     minimise |-> minimise, kwargs |-> kwargs]
        /\ criterion = TspRunner_termination_criterion(
                            algorithm_type, minimise, kwargs)
    /\ loop = [pc |-> "test", count |-> 0]
    /\ hooks = [iteration_done |-> 0, values |-> <<>>, others |-> 0]
    /\ history = [made |-> <<>>,
                  alone |-> IF criterion.class = "MultiCriterion"
                            THEN criterion.criteria ELSE <<>>]

NextRunner ==
    \/ HooksLoopTest
    \/ \E value \in 0..MaxValue : HooksLoopCheckNewValue(value)
    \/ HooksLoopIterationDone

SpecRunner == InitRunner /\ [][NextRunner]_vars

\* ------------------------------------------------------------------------
\* SpecStrategies: the run of each of the four strategies, SteepestDescent,
\* SimulatedAnnealing, TabuSearch and VariableNeighbourhood, with a
\* MaxIterationsTerminationCriterion or a MustImproveTerminationCriterion

\* MustImproveTerminationCriterion(improvement_is_bigger), both ways
MustImproveCriteria ==
    {MustImproveTerminationCriterion(improvement_is_bigger) :
        improvement_is_bigger \in BOOLEAN}

InitStrategies ==
    \/ InitDescent
    \/ InitAnneal
    \/ InitTabuSearch
    \/ InitAnnealWith(MustImproveCriteria)
    \/ InitTabuSearchWith(MustImproveCriteria)
    \/ InitVnsWith(MustImproveCriteria
                   \cup {MaxIterationsTerminationCriterion(MaxRounds)})

NextStrategies ==
    \/ search.self.class = "SteepestDescent" /\ NextDescent
    \/ search.self.class = "SimulatedAnnealing" /\ NextAnneal
    \/ search.self.class = "TabuSearch" /\ NextTabuSearch
    \/ search.self.class = "VariableNeighbourhood" /\ NextVns

SpecStrategies == InitStrategies /\ [][NextStrategies]_vars

\* ------------------------------------------------------------------------
\* Properties of the move functions

\* the array is a permutation of 0..n-1: every value occurs at exactly one
\* position
IsPermutation(array, n) ==
    /\ DOMAIN array = 0..(n - 1)
    /\ \A v \in 0..(n - 1) : Cardinality({p \in 0..(n - 1) : array[p] = v}) = 1

\* the pairs (i, j) with first <= i < j < n
Pairs(first, n) ==
    {m \in (first..(n - 1)) \X (first..(n - 1)) : m[1] < m[2]}

\* a comes before b: ascending by first index, then by second index
Before(a, b) == a[1] < b[1] \/ (a[1] = b[1] /\ a[2] < b[2])

\* s lists exactly the pairs P, each once, in ascending order
IsAscendingListOf(s, P) ==
    /\ Range(s) = P
    /\ Len(s) = Cardinality(P)
    /\ \A k \in 1..(Len(s) - 1) : Before(s[k], s[k + 1])

\* C4: for ArraySwap and ArrayReverseOrder, a move(s, m) directly followed by
\* undo_move(s, m) leaves the array elementwise equal to what it was before
\* the two calls
MoveInvertibility ==
    ( /\ move_func.class \in {"ArraySwap", "ArrayReverseOrder"}
      /\ Len(calls) = 2
      /\ calls[1].op = "move"
      /\ calls[2].op = "undo_move"
      /\ calls[1].move = calls[2].move )
    => order = calls[1].before

\* a reversal of a span of even length and its undo have been done
MoveInvertibilityWitness ==
    /\ move_func.class = "ArrayReverseOrder"
    /\ Len(calls) = 2
    /\ calls[1] = [op |-> "move", move |-> <<0, 3>>, before |-> order]
    /\ calls[2].op = "undo_move"
    /\ calls[2].move = <<0, 3>>
    /\ calls[2].before # order

\* C5: after any sequence of move and undo_move calls with generated moves
\* the live array is still a permutation of 0..n-1
PermutationInvariant == IsPermutation(order, move_func._size)

\* two moves have been done, neither undone, and the array has changed
PermutationInvariantWitness ==
    /\ Len(calls) = 2
    /\ calls[1].op = "move"
    /\ calls[2].op = "move"
    /\ calls[1].move # calls[2].move
    /\ order # calls[1].before
    /\ order # calls[2].before

\* C6: get_moves() of ArraySwap and ArrayReverseOrder yields exactly the
\* C(n,2) pairs (i, j) with 0 <= i < j < n, each once, ascending by first
\* then second index, and every later call yields the same list
NeighbourhoodEnumeration ==
    move_func.class \in {"ArraySwap", "ArrayReverseOrder"} =>
        \A k \in 1..Len(enumerations) :
            /\ enumerations[k].raised = "None"
            /\ IsAscendingListOf(enumerations[k].value,
                                 Pairs(0, move_func._size))
            /\ 2 * Len(enumerations[k].value) =
                    move_func._size * (move_func._size - 1)
            /\ enumerations[k] = enumerations[1]

\* the neighbourhood of an array of at least 3 items was enumerated twice
NeighbourhoodEnumerationWitness ==
    /\ move_func.class = "ArraySwap"
    /\ move_func._size >= 3
    /\ Len(enumerations) = 2
    /\ Len(enumerations[2].value) >= 3

\* C7: TspArraySwap(n).get_moves() yields exactly the pairs (i, j) with
\* 1 <= i < j < n in ascending order, and get_random_move() returns one of
\* these pairs
TspReducedNeighbourhood ==
    move_func.class = "TspArraySwap" =>
        /\ \A k \in 1..Len(enumerations) :
            /\ enumerations[k].raised = "None"
            /\ IsAscendingListOf(enumerations[k].value,
                                 Pairs(1, move_func._size))
        /\ rnd_result # NotCalled =>
            /\ rnd_result.raised = "None"
            /\ rnd_result.value \in Pairs(1, move_func._size)

\* C8: for ArraySwap and ArrayReverseOrder of size n >= 2, whatever is drawn,
\* get_random_move() returns a pair (i, j) with 0 <= i < j < n, which is one
\* of the moves get_moves() enumerates
RandomMoveValidity ==
    ( /\ move_func.class \in {"ArraySwap", "ArrayReverseOrder"}
      /\ move_func._size >= 2 )
    => /\ rnd_result.raised \in {"NotCalled", "None"}
       /\ rnd_result.raised = "None" =>
            /\ rnd_result.value[1] >= 0
            /\ rnd_result.value[1] < rnd_result.value[2]
            /\ rnd_result.value[2] < move_func._size
            /\ rnd_result.value \in Range(get_moves(move_func).value)
       /\ returned \subseteq Pairs(0, move_func._size)

\* every move of the neighbourhood has been returned by get_random_move()
RandomMoveValidityWitness ==
    /\ move_func.class = "ArrayReverseOrder"
    /\ move_func._size >= 3
    /\ rnd_result.raised = "None"
    /\ returned = Range(get_moves(move_func).value)

\* ------------------------------------------------------------------------
\* Properties of delta evaluation

\* C1: for every distance matrix, permutation and swap move (i, j),
\* TspEvaluationFunction.delta_evaluate with the aid functions of ArraySwap
\* returns evaluate(order with the swap applied) - evaluate(order)
TspSwapDeltaEquivalence ==
    ( /\ delta.called
      /\ eval_func.class = "TspEvaluationFunction"
      /\ move_func.class = "ArraySwap" )
    => /\ delta.result.raised = "None"
       /\ delta.result.value =
            TspEvaluationFunction_evaluate(
                eval_func, ArraySwap_move(order, delta.move))
            - TspEvaluationFunction_evaluate(eval_func, order)

\* a swap of two positions that are not adjacent, one of them position 0,
\* was evaluated and changes the value
TspSwapDeltaEquivalenceWitness ==
    /\ delta.called
    /\ eval_func.class = "TspEvaluationFunction"
    /\ move_func.class = "ArraySwap"
    /\ move_func._size >= 4
    /\ delta.move = <<0, 2>>
    /\ delta.result.raised = "None"
    /\ delta.result.value # 0

\* C2: for every distance matrix, symmetric or not, every permutation and
\* every reversal move (i, j), TspEvaluationFunction.delta_evaluate with the
\* aid functions of ArrayReverseOrder returns
\* evaluate(order with positions i..j reversed) - evaluate(order)
TspReversalDeltaEquivalence ==
    ( /\ delta.called
      /\ eval_func.class = "TspEvaluationFunction"
      /\ move_func.class = "ArrayReverseOrder" )
    => /\ delta.result.raised = "None"
       /\ delta.result.value =
            TspEvaluationFunction_evaluate(
                eval_func, ArrayReverseOrder_move(order, delta.move))
            - TspEvaluationFunction_evaluate(eval_func, order)

\* the reversal of the whole array was evaluated with a matrix that is not
\* symmetric, and it changes the value
TspReversalDeltaEquivalenceWitness ==
    /\ delta.called
    /\ eval_func.class = "TspEvaluationFunction"
    /\ move_func.class = "ArrayReverseOrder"
    /\ move_func._size >= 3
    /\ \E a, b \in Positions(move_func._size) :
            eval_func._distance_matrixx[a][b]
                # eval_func._distance_matrixx[b][a]
    /\ delta.move = <<0, move_func._size - 1>>
    /\ delta.result.raised = "None"
    /\ delta.result.value # 0

\* C3: for every pair of symmetric distance and flow matrices, whatever is on
\* their diagonals, every assignment and every swap move, the QAP delta
\* evaluation returns evaluate(order after the swap) - evaluate(order)
QapSwapDeltaEquivalence ==
    ( /\ delta.called
      /\ eval_func.class = "QuadraticAssignmentEvaluationFunction" )
    => /\ delta.result.raised = "None"
       /\ delta.result.value =
            QuadraticAssignmentEvaluationFunction_evaluate(
                eval_func, ArraySwap_move(order, delta.move))
            - QuadraticAssignmentEvaluationFunction_evaluate(eval_func, order)

\* ------------------------------------------------------------------------
\* Properties of the termination criteria

\* C9: with MaxIterationsTerminationCriterion(k), keep_running() is true
\* exactly while fewer than k calls of iteration_done have been made,
\* whatever other hooks were called, and the body of the loop
\* 'while keep_running(): iteration_done()' runs exactly k times
MaxIterationsExactlyK ==
    criterion.class = "MaxIterationsTerminationCriterion" =>
        /\ keep_running(criterion)
            <=> (hooks.iteration_done < criterion._max_iterations)
        /\ loop.count <= criterion._max_iterations
        /\ loop.pc = "exit" => loop.count = criterion._max_iterations

\* a loop of at least 2 iterations has ended while the other hooks were
\* called too
MaxIterationsExactlyKWitness ==
    /\ criterion.class = "MaxIterationsTerminationCriterion"
    /\ criterion._max_iterations >= 2
    /\ loop.pc = "exit"
    /\ loop.count = criterion._max_iterations
    /\ hooks.iteration_done > criterion._max_iterations
    /\ Len(hooks.values) > 0
    /\ hooks.others > 0

\* every call of check_new_value but the first passed a value strictly
\* better than the value of the call before it
AllImproving(values, improvement_is_bigger) ==
    \A k \in 2..Len(values) :
        IF improvement_is_bigger
        THEN values[k] > values[k - 1]
        ELSE values[k] < values[k - 1]

\* C10: with MustImproveTerminationCriterion, keep_running() is true iff
\* every check_new_value call so far was a strict improvement on the value of
\* the call before it, the first call always being one and an equal value
\* never; so once false it stays false
MustImproveStopsAtFirstNonImprovement ==
    criterion.class = "MustImproveTerminationCriterion" =>
        ( keep_running(criterion)
            <=> AllImproving(hooks.values, criterion._function = "bigger") )

\* an equal value has stopped the criterion and a later, better value has
\* not restarted it
MustImproveStopsAtFirstNonImprovementWitness ==
    /\ criterion.class = "MustImproveTerminationCriterion"
    /\ criterion._function = "smaller"
    /\ Len(hooks.values) = 3
    /\ hooks.values[2] = hooks.values[1]
    /\ hooks.values[3] < hooks.values[2]
    /\ ~keep_running(criterion)

\* ------------------------------------------------------------------------
\* Properties of NoImprovementTerminationCriterion and MultiCriterion

\* value k of the list is a strict improvement on every value before it
IsImprovement(values, k, improvement_is_bigger) ==
    \A h \in 1..(k - 1) :
        IF improvement_is_bigger
        THEN values[k] > values[h]
        ELSE values[k] < values[h]

\* the number of values at the end of the list since the last one that was
\* a strict improvement on every value before it
SinceImprovement(values, improvement_is_bigger) ==
    LET improving == {k \in 1..Len(values) :
                        IsImprovement(values, k, improvement_is_bigger)}
    IN  Cardinality({k \in 1..Len(values) : \A h \in improving : h < k})

\* C11 as stated: a check_new_value call sets the counter of a
\* NoImprovementTerminationCriterion to 0 on a strict improvement over the
\* best value seen and increments it otherwise
NoImprovementCheckNewValueCounts ==
    [][ ( /\ criterion.class = "NoImprovementTerminationCriterion"
          /\ Len(hooks'.values) = Len(hooks.values) + 1 )
        => criterion'._iterations =
            IF IsImprovement(hooks'.values, Len(hooks'.values),
                             criterion._function = "bigger")
            THEN 0
            ELSE criterion._iterations + 1 ]_vars

\* C11 as amended: in the loop 'check_new_value(v); iteration_done()' of a
\* NoImprovementTerminationCriterion with bound N, check_new_value leaves
\* the counter one below, and iteration_done brings it to, the number of
\* iterations since the last strict improvement over the best value seen;
\* keep_running() is true iff the counter is below N, and the loop stops
\* exactly when N iterations in a row brought no strict improvement
NoImprovementStopsAfterN ==
    ( /\ criterion.class = "NoImprovementTerminationCriterion"
      /\ loop.pc # "free" )
    => LET since == SinceImprovement(hooks.values,
                                     criterion._function = "bigger")
       IN  /\ criterion._iterations =
                IF loop.pc = "done" THEN since - 1 ELSE since
           /\ keep_running(criterion)
                <=> (criterion._iterations < criterion._max_iterations)
           /\ loop.pc = "check" => since < criterion._max_iterations
           /\ loop.pc = "exit" => since = criterion._max_iterations

\* a loop with bound 2 has stopped after two values that did not improve
\* on the second value, which improved on the first
NoImprovementStopsAfterNWitness ==
    /\ criterion.class = "NoImprovementTerminationCriterion"
    /\ criterion._function = "smaller"
    /\ criterion._max_iterations = 2
    /\ loop.pc = "exit"
    /\ loop.count = 4
    /\ hooks.values = <<1, 0, 0, 0>>

\* C12: after any sequence of hook calls, keep_running() of a MultiCriterion
\* is true iff keep_running() is true of every child that received the same
\* hook calls alone: the loop the MultiCriterion drives goes on while every
\* child alone would go on and stops as soon as one of them would stop
MultiCriterionIsAnd ==
    criterion.class = "MultiCriterion" =>
        /\ keep_running(criterion)
            <=> \A k \in DOMAIN history.alone :
                    keep_running(history.alone[k])
        /\ loop.pc = "check" =>
            \A k \in DOMAIN history.alone : keep_running(history.alone[k])
        /\ loop.pc = "exit" =>
            \E k \in DOMAIN history.alone : ~keep_running(history.alone[k])

\* a loop was stopped by the second child, a MaxIterationsTerminationCriterion,
\* while the first, a NoImprovementTerminationCriterion, would go on
MultiCriterionIsAndWitness ==
    /\ criterion.class = "MultiCriterion"
    /\ Len(criterion.criteria) = 2
    /\ history.alone[1].class = "NoImprovementTerminationCriterion"
    /\ history.alone[2].class = "MaxIterationsTerminationCriterion"
    /\ loop.pc = "exit"
    /\ loop.count = 2
    /\ keep_running(history.alone[1])
    /\ ~keep_running(history.alone[2])

\* C13 as stated: every child of a MultiCriterion has received exactly the
\* calls of iteration_done, check_new_value, start_timing and check_variable
\* that were made on the MultiCriterion, with the same arguments
MultiCriterionFansOutEveryHook ==
    criterion.class = "MultiCriterion" =>
        \A k \in DOMAIN criterion.criteria :
            criterion.received[k] = history.made

\* the calls of the list that are not calls of check_variable
RECURSIVE WithoutCheckVariable(_)
WithoutCheckVariable(made) ==
    IF made = <<>> THEN <<>>
    ELSE IF Head(made)[1] = "check_variable"
         THEN WithoutCheckVariable(Tail(made))
         ELSE <<Head(made)>> \o WithoutCheckVariable(Tail(made))

\* C13 as amended: every child of a MultiCriterion has received exactly the
\* calls of iteration_done, check_new_value and start_timing that were made
\* on the MultiCriterion, with the same arguments and in the same order, and
\* is in the state these calls leave it in; a call of check_variable reaches
\* no child
MultiCriterionFansOut ==
    criterion.class = "MultiCriterion" =>
        \A k \in DOMAIN criterion.criteria :
            /\ criterion.received[k] = WithoutCheckVariable(history.made)
            /\ criterion.criteria[k] = history.alone[k]

\* a check_new_value call and a check_variable call were made on a
\* MultiCriterion of two children
MultiCriterionFansOutWitness ==
    /\ criterion.class = "MultiCriterion"
    /\ Len(criterion.criteria) = 2
    /\ loop.pc = "free"
    /\ history.made = << <<"check_new_value", Number(1)>>,
                         <<"check_variable", Number(1)>> >>
    /\ criterion.received[2] = << <<"check_new_value", Number(1)>> >>

\* ------------------------------------------------------------------------
\* Properties of the tabu list and of the solution object

\* the items of the list are pairwise different
Distinct(items) ==
    \A h, k \in DOMAIN items : h # k => items[h] # items[k]

\* the last k items of the list are contained in the tabu list and the
\* items before them are not
LastContained(k) ==
    \A idx \in DOMAIN history :
        TabuList_contains(tabu, history[idx]) <=> idx > Len(history) - k

\* C14 as stated: a TabuList of capacity k never holds more than k entries,
\* and after more than k different items were added, exactly the last k of
\* them test as contained
TabuListIsExactFifo ==
    tabu.class = "TabuList" =>
        /\ Len(tabu._list.items) <= tabu._list.maxlen
        /\ (Len(history) > tabu._list.maxlen /\ Distinct(history))
            => LastContained(tabu._list.maxlen)

\* C14 as amended: a TabuList of capacity k never holds more than k entries,
\* and after more than k items with different hashes were added, exactly the
\* last k of them test as contained
TabuListIsBoundedFifo ==
    tabu.class = "TabuList" =>
        /\ Len(tabu._list.items) <= tabu._list.maxlen
        /\ ( /\ Len(history) > tabu._list.maxlen
             /\ Distinct([k \in DOMAIN history |-> hash(history[k])]) )
            => LastContained(tabu._list.maxlen)

\* the first of three items with different hashes has tested as not
\* contained in a list of capacity 2
TabuListIsBoundedFifoWitness ==
    /\ tabu.class = "TabuList"
    /\ tabu._list.maxlen = 2
    /\ Len(history) = 3
    /\ Distinct([k \in DOMAIN history |-> hash(history[k])])
    /\ HasAttr(search, "item")
    /\ search.item = history[1]
    /\ search.contains = FALSE

\* C15: best_order and best_order_value are set by set_as_best(v) only, to
\* the live array as it is at that call and to v, and no later call of move,
\* undo_move, evaluate, evaluate_move, get_moves, get_random_move or state
\* changes them
BestFoundRecordIsOwnedCopy ==
    solution.class = "TspSolution" =>
        IF history.best = <<>>
        THEN ~HasAttr(solution, "best_order")
        ELSE /\ Items(solution.best_order, order)
                    = tuple(history.best[1].order).items
             /\ solution.best_order_value = history.best[1].value

\* the live array was moved away from the best order by the last call
BestFoundRecordIsOwnedCopyWitness ==
    /\ solution.class = "TspSolution"
    /\ history.best # <<>>
    /\ history.last = "move"
    /\ order # history.best[1].order
    /\ solution.best_order_value # 0

\* C16: the value state() has returned still has the items the live array
\* had at that call, whatever was called since, and it equals the value
\* state() returns now iff the live array is now as it was then
StateFingerprintIsValue ==
    (solution.class = "TspSolution" /\ history.captured # <<>>) =>
        LET captured == history.captured[1]
        IN  /\ Items(captured.fingerprint, order)
                    = tuple(captured.order).items
            /\ (Items(TspSolution_state(order), order)
                    = Items(captured.fingerprint, order))
                <=> (order = captured.order)

\* the live array was moved after state() was called
StateFingerprintIsValueWitness ==
    /\ solution.class = "TspSolution"
    /\ history.captured # <<>>
    /\ history.last = "move"
    /\ order # history.captured[1].order

\* ------------------------------------------------------------------------
\* Properties of SteepestDescent

\* the best move of the last sweep strictly improves the value the live
\* array had before it, in the direction of the search
LastSweepImproved ==
    Call(search.self._function, Number(0),
         history.last[1].best_found_delta)

\* C17: with the default termination criterion, for minimise and for
\* maximise, the main loop of SteepestDescent.run goes on after a sweep iff
\* the best move of that sweep strictly improves the current value: it exits
\* right after the first sweep whose best move does not, so that run returns
\* from a start that is a strict local optimum too
SteepestDescentStopsAtFirstNonImprovement ==
    ( /\ HasAttr(search, "self")
      /\ search.self.class = "SteepestDescent"
      /\ search.self.default
      /\ history.last # <<>> )
    => /\ search.pc = "test" => (keep_running(criterion) <=> LastSweepImproved)
       /\ search.pc = "body" => LastSweepImproved
       /\ search.pc \in {"return", "returned"} => ~LastSweepImproved

\* C18 as stated: in every iteration of SteepestDescent.run the best move of
\* the sweep is made on the live array, whatever its delta, and the
\* best-found record is set iff the new value beats the best value
SteepestDescentMovesUnconditionally ==
    ( /\ HasAttr(search, "self")
      /\ search.self.class = "SteepestDescent"
      /\ history.last # <<>>
      /\ history.last[1].best_found_move # <<>> )
    => LET last == history.last[1]
           new_best == Call(search.self._function, last.best.best_value,
                            Plus(last.base_value, last.best_found_delta))
       IN  /\ order = move_method(move_func, last.order,
                                  last.best_found_move)
           /\ IF new_best
              THEN Results(solution, order) =
                        [best_order |-> tuple(order).items,
                         best_value |-> search.base_value]
              ELSE Results(solution, order) = last.best

\* C18 as amended: in every iteration of SteepestDescent.run the delta of
\* the best move of the sweep is added to the running value, and the move is
\* made on the live array iff the new running value is strictly better than
\* the best value, in which case the best-found record is set to the new
\* array and value; otherwise the live array and the best-found record stay
\* as they are
SteepestDescentMovesOnNewBest ==
    ( /\ HasAttr(search, "self")
      /\ search.self.class = "SteepestDescent"
      /\ history.last # <<>> )
    => LET last == history.last[1]
           new_best == Call(search.self._function, last.best.best_value,
                            Plus(last.base_value, last.best_found_delta))
       IN  /\ search.base_value =
                Plus(last.base_value, last.best_found_delta)
           /\ IF new_best
              THEN /\ order = move_method(move_func, last.order,
                                          last.best_found_move)
                   /\ Results(solution, order) =
                        [best_order |-> tuple(order).items,
                         best_value |-> search.base_value]
              ELSE /\ order = last.order
                   /\ Results(solution, order) = last.best

\* the second sweep of a minimising search found a best move that does not
\* improve, after a first sweep whose best move was made
SteepestDescentMovesOnNewBestWitness ==
    /\ HasAttr(search, "self")
    /\ search.self.class = "SteepestDescent"
    /\ search.self.minimise
    /\ history.sweeps = 2
    /\ history.last # <<>>
    /\ history.last[1].best_found_move # <<>>
    /\ Greater(history.last[1].best_found_delta, Number(0))
    /\ order = history.last[1].order
    /\ order # [p \in DOMAIN order |-> p]
    /\ Results(solution, order).best_order = tuple(order).items

\* C19: with the distance matrix of the example, the starting order
\* [0, 1, 2, 3], TspArraySwap, minimise and the default termination
\* criterion, run returns the best order [0, 1, 3, 2] and the best value 15
SteepestDescentExample ==
    ( /\ HasAttr(search, "self")
      /\ search.self.class = "SteepestDescent"
      /\ search.self.minimise
      /\ search.self.default
      /\ move_func = TspArraySwap(4)
      /\ eval_func = TspEvaluationFunction(ExampleMatrix, 4, move_func)
      /\ search.pc \in {"raised", "returned"} )
    => /\ search.pc = "returned"
       /\ search.result = [best_order |-> <<0, 1, 3, 2>>,
                           best_value |-> Number(15)]

\* ------------------------------------------------------------------------
\* Properties of SimulatedAnnealing.run

\* the last trial has made its move: the live array is the array of before
\* the trial with the move made, and the running value has the delta added
TrialApplied(last) ==
    /\ order = move_method(move_func, last.order, last.move)
    /\ order # last.order
    /\ search.base_value = Plus(last.base_value, Number(last.delta))

\* the last trial has left the live array and the running value alone
TrialRejected(last) ==
    /\ order = last.order
    /\ search.base_value = last.base_value

\* C20: in every trial of SimulatedAnnealing.run, a move whose delta is
\* improving or zero in the configured direction (minimise: delta <= 0,
\* maximise: delta >= 0) is made without a call of the acceptance function;
\* a worsening move is made iff the acceptance function accepts it, and a
\* rejected move leaves the live array and the running value unchanged; the
\* best-found record changes only when the new running value is strictly
\* better than the recorded best, and then to the new array and value
SimulatedAnnealingAcceptance ==
    (search.pc \in {"trials", "test", "return", "returned"}
     /\ history.last # <<>>) =>
        LET last == history.last[1]
            minimise == search.self.minimise
            improving == IF minimise THEN last.delta <= 0
                                     ELSE last.delta >= 0
            better == IF minimise
                      THEN Greater(last.best.best_value, search.base_value)
                      ELSE Greater(search.base_value, last.best.best_value)
        IN  /\ improving => (~last.consulted /\ TrialApplied(last))
            /\ ~improving =>
                /\ last.consulted
                /\ IF last.accepted THEN TrialApplied(last)
                                    ELSE TrialRejected(last)
            /\ Results(solution, order) # last.best =>
                /\ better
                /\ Results(solution, order) =
                    [best_order |-> tuple(order).items,
                     best_value |-> search.base_value]

\* a trial has made a move that changes nothing to the value without a call
\* of the acceptance function, and the best-found record is the one of
\* before
SimulatedAnnealingAcceptanceWitness ==
    /\ search.pc = "trials"
    /\ history.last # <<>>
    /\ history.last[1].delta = 0
    /\ ~history.last[1].consulted
    /\ TrialApplied(history.last[1])
    /\ Results(solution, order) = history.last[1].best

\* ------------------------------------------------------------------------
\* Properties of an evaluation function without a move function

\* the length of the closed tour through the points of array
TourLength(distance_matrix, array, n) ==
    sum([p \in Positions(n) |->
            distance_matrix[array[p]][array[(p + 1) % n]]],
        Positions(n))

\* C26: a TspEvaluationFunction that was constructed without a move function
\* evaluates: evaluate() returns the length of the tour; every call of
\* delta_evaluate raises NotImplementedError, and the array that was passed
\* to it is as it was
DeltaEvaluateNotImplemented ==
    [][eval_func.move_function.class = "None" =>
        /\ delta'.called =>
            /\ delta'.result = Raised("NotImplementedError")
            /\ order' = order
        /\ (~delta'.called /\ delta' # NoDelta) =>
            /\ delta'.result = Returned(TourLength(
                    eval_func._distance_matrixx, order, eval_func._size))
            /\ order' = order]_vars

\* delta_evaluate was called for a move that changes the length of the tour,
\* and it raised
DeltaEvaluateNotImplementedWitness ==
    /\ eval_func.class = "TspEvaluationFunction"
    /\ eval_func.move_function.class = "None"
    /\ delta.called
    /\ delta.result.raised = "NotImplementedError"
    /\ TourLength(eval_func._distance_matrixx,
                  move_method(move_func, order, delta.move), eval_func._size)
        # TourLength(eval_func._distance_matrixx, order, eval_func._size)

\* ------------------------------------------------------------------------
\* Properties of the aid functions for delta evaluation

\* C28: for ArraySwap and ArrayReverseOrder, every array s, every valid move
\* m and every pair of positions (frm, to): with
\* (f, t) = transform_next_index_to_current_index(frm, to, m), s[f] is the
\* item at position frm and s[t] the item at position to of the array that
\* move(s, m) gives
IndexTransformation ==
    search.method = "transform_next_index_to_current_index" =>
        LET moved == move_method(move_func, order, search.move)
        IN  /\ order[search.result[1]] = moved[search.frm]
            /\ order[search.result[2]] = moved[search.to]

\* the indices of a reversal of three or more items were transformed, one
\* end of the span and a position outside of it
IndexTransformationWitness ==
    /\ search.method = "transform_next_index_to_current_index"
    /\ move_func.class = "ArrayReverseOrder"
    /\ search.move[2] - search.move[1] >= 2
    /\ search.frm = search.move[2]
    /\ search.to = search.move[2] + 1
    /\ search.result = <<search.move[1], search.to>>
    /\ order[search.move[1]] # order[search.move[2]]

\* the position after p and the position before p on a tour of n positions
Next_(p, n) == (p + 1) % n
Prev_(p, n) == (p + n - 1) % n

\* the edge of the tour from position p to the next position, the edge that
\* closes the tour being (n - 1, 0)
Edge(p, n) == <<p, Next_(p, n)>>

\* i and j are next to each other on a tour of n positions
CyclicallyAdjacent(i, j, n) == Next_(i, n) = j \/ Next_(j, n) = i

\* C29: for every size n >= 2 and swap move (i, j), changed_distances of
\* ArraySwap and array_swap_changed_distances of delta_tsp return exactly
\* the edges of the tour next to i or to j; they are 4 when i and j are not
\* cyclically adjacent, and every edge that has another item at one of its
\* ends after the swap is among them
SwapChangedDistances ==
    ( /\ search.method \in {"changed_distances",
                            "array_swap_changed_distances"}
      /\ move_func.class = "ArraySwap"
      /\ move_func._size >= 2 ) =>
        LET n == move_func._size
            i == search.move[1]
            j == search.move[2]
            moved == ArraySwap_move(order, search.move)
        IN  /\ search.result =
                {Edge(Prev_(p, n), n) : p \in {i, j}}
                \cup {Edge(p, n) : p \in {i, j}}
            /\ ~CyclicallyAdjacent(i, j, n)
                => Cardinality(search.result) = 4
            /\ Cardinality(search.result) <= 4
            /\ \A p \in Positions(n) :
                (order[p] # moved[p]
                 \/ order[Next_(p, n)] # moved[Next_(p, n)])
                    => Edge(p, n) \in search.result

\* the pairs of a swap of the first position with one that is not next to
\* it were asked for: the pair that closes the tour is one of the four
SwapChangedDistancesWitness ==
    /\ search.method = "array_swap_changed_distances"
    /\ move_func.class = "ArraySwap"
    /\ move_func._size = 4
    /\ search.move = <<0, 2>>
    /\ search.result = {<<3, 0>>, <<0, 1>>, <<1, 2>>, <<2, 3>>}

\* C30 as the claim states it: for every reversal move (i, j) with
\* 0 <= i < j < n, changed_distances returns exactly 2 + (j - i) pairs
ReversalChangedDistancesSize ==
    ( /\ search.method = "changed_distances"
      /\ move_func.class = "ArrayReverseOrder" ) =>
        Cardinality(search.result) = 2 + (search.move[2] - search.move[1])

\* C30, amended: changed_distances returns the pair before the span, the
\* pair after it and the j - i pairs inside it; they are 2 + (j - i) pairs,
\* but for the reversal of the whole array (0, n - 1), where the pair before
\* and the pair after the span are both (n - 1, 0): then they are
\* 1 + (j - i) = n pairs
ReversalChangedDistancesSizeButWhole ==
    ( /\ search.method = "changed_distances"
      /\ move_func.class = "ArrayReverseOrder" ) =>
        LET n == move_func._size
            i == search.move[1]
            j == search.move[2]
        IN  /\ search.result =
                {Edge(Prev_(i, n), n), Edge(j, n)}
                \cup {<<p, p + 1>> : p \in i..(j - 1)}
            /\ Cardinality(search.result) =
                IF i = 0 /\ j = n - 1 THEN 1 + (j - i) ELSE 2 + (j - i)

\* the pairs of the reversal of a whole array of three or more items were
\* asked for, and the pairs of a reversal of a part of it
ReversalChangedDistancesSizeButWholeWitness ==
    /\ search.method = "changed_distances"
    /\ move_func.class = "ArrayReverseOrder"
    /\ move_func._size >= 3
    /\ search.move = <<0, move_func._size - 1>>
    /\ Cardinality(search.result) = move_func._size

\* the array that has the items of a tuple
AsArray(items) == [p \in 0..(Len(items) - 1) |-> items[p + 1]]

\* C25: at the end of every trial of SimulatedAnnealing.run the running
\* value is evaluate() of the live array and best_order_value is the
\* evaluation of best_order, and so it is for the result that is returned
SimulatedAnnealingBookkeeping ==
    (search.pc \in {"trials", "test", "return", "returned"}
     /\ history.trials > 0) =>
        /\ search.base_value =
            Number(TspEvaluationFunction_evaluate(eval_func, order))
        /\ solution.best_order_value =
            Number(TspEvaluationFunction_evaluate(
                    eval_func, AsArray(Items(solution.best_order, order))))
        /\ search.pc = "returned" =>
            search.result.best_value =
                Number(TspEvaluationFunction_evaluate(
                        eval_func, AsArray(search.result.best_order)))

\* a run has returned after a trial that made a worsening move: the best
\* order is not the live array, and the values of the two differ
SimulatedAnnealingBookkeepingWitness ==
    /\ search.pc = "returned"
    /\ history.last # <<>>
    /\ history.last[1].consulted
    /\ history.last[1].accepted
    /\ search.result.best_order # tuple(order).items
    /\ search.result.best_value # search.base_value

\* ------------------------------------------------------------------------
\* Properties of TabuSearch.run

\* the items of the array that move m makes of the array of before the last
\* iteration
StateAfter(last, m) == tuple(move_method(move_func, last.order, m)).items

\* what move m changes to the value of the array of before the last
\* iteration
DeltaOf(last, m) ==
    TspEvaluationFunction_evaluate(
        eval_func, move_method(move_func, last.order, m))
    - TspEvaluationFunction_evaluate(eval_func, last.order)

\* the places in the list of the moves of the moves that lead to a state
\* that was not in the tabu list before the last iteration
NotTabu(last) ==
    {k \in DOMAIN get_moves(move_func).value :
        ~TabuList_contains(
            last.tabu, StateAfter(last, get_moves(move_func).value[k]))}

\* a is strictly better than b for the search
StrictlyBetter(a, b) == IF search.self._minimise THEN a < b ELSE a > b

TabuSearchDeadEnd ==
    ( /\ search.pc \in {"test", "body", "raised", "return", "returned"}
      /\ history.last # <<>>
      /\ NotTabu(history.last[1]) = {} ) =>
        /\ search.pc \in {"return", "returned"}
        /\ order = history.last[1].order
        /\ Results(solution, order) = history.last[1].best
        /\ search.pc = "returned" => search.result = history.last[1].best

\* a run has returned from an iteration in which the neighbourhood had a
\* move and every move led to a state of the tabu list
TabuSearchDeadEndWitness ==
    /\ search.pc = "returned"
    /\ history.last # <<>>
    /\ history.last[1].best_found_move = <<>>
    /\ Len(get_moves(move_func).value) >= 1
    /\ NotTabu(history.last[1]) = {}
    /\ order = history.last[1].order
    /\ search.result = history.last[1].best

\* ------------------------------------------------------------------------
\* Properties of the searches on a neighbourhood without moves

\* get_moves() returns and yields no move
EmptyNeighbourhood ==
    /\ get_moves(move_func).raised = "None"
    /\ Len(get_moves(move_func).value) = 0

\* the record of the live array with its own value
OrderAndValue ==
    [best_order |-> tuple(order).items,
     best_value |-> Number(TspEvaluationFunction_evaluate(eval_func, order))]

\* C27: when get_moves() yields no move, SteepestDescent.run with the default
\* termination criterion (minimising or maximising) and TabuSearch.run do
\* not raise, make no move, leave the main loop (TabuSearch in the first
\* iteration, SteepestDescent after the second at the latest), and return
\* the starting order and its value
EmptyNeighbourhoodIsNoMoveFound ==
    ( /\ EmptyNeighbourhood
      /\ \/ search.self.class = "TabuSearch"
         \/ search.self.class = "SteepestDescent" /\ search.self.default ) =>
        /\ search.pc # "raised"
        /\ history.sweeps <= (IF search.self.class = "TabuSearch" THEN 1 ELSE 2)
        /\ history.last # <<>> =>
            /\ history.last[1].best_found_move = <<>>
            /\ order = history.last[1].order
            /\ Results(solution, order) = history.last[1].best
        /\ (search.pc = "test" /\ history.sweeps = 2) =>
            ~keep_running(criterion)
        /\ search.pc # "start" => Results(solution, order) = OrderAndValue
        /\ search.pc = "returned" => search.result = OrderAndValue

\* a SteepestDescent that maximises has returned after a sweep that found
\* no move
EmptyNeighbourhoodIsNoMoveFoundWitness ==
    /\ EmptyNeighbourhood
    /\ search.self.class = "SteepestDescent"
    /\ search.self.default
    /\ ~search.self.minimise
    /\ search.pc = "returned"
    /\ history.sweeps >= 1
    /\ search.result = OrderAndValue

\* ------------------------------------------------------------------------
\* Properties of VariableNeighbourhood.run

\* value a is strictly better than value b in the direction of the search
VnsBetter(a, b) ==
    IF search.self._function = "smaller" THEN a < b ELSE a > b

\* the live array of before the last iteration with the best move of its
\* sweep made
VnsMoved(last) ==
    move_method(select(move_func, last.neighbourhood),
                last.order, last.best_found_move)

\* the best move of the last sweep improves the value of the live array
VnsImproves(last) ==
    /\ last.best_found_move # <<>>
    /\ VnsBetter(TspEvaluationFunction_evaluate(eval_func, VnsMoved(last)),
                 TspEvaluationFunction_evaluate(eval_func, last.order))

\* C23: in every iteration of VariableNeighbourhood.run, if the best move of
\* the current neighbourhood improves the value of the live array, the move
\* is made and the neighbourhood index stays; otherwise the live array is
\* left as it is and the index becomes (index + 1) modulo the number of
\* neighbourhoods
VariableNeighbourhoodStep ==
    (search.pc \in {"test", "return", "returned"} /\ history.last # <<>>) =>
        LET last == history.last[1]
        IN  IF VnsImproves(last)
            THEN /\ order = VnsMoved(last)
                 /\ search.current_neighbourhood = last.neighbourhood
            ELSE /\ order = last.order
                 /\ search.current_neighbourhood =
                        (last.neighbourhood + 1) % search.neighbourhoods_amount

\* C24: the best_value that VariableNeighbourhood.run returns is evaluate()
\* of the best_order that it returns
VariableNeighbourhoodResultConsistency ==
    search.pc = "returned" =>
        Results(solution, order).best_value =
            Number(TspEvaluationFunction_evaluate(
                eval_func, AsArray(Results(solution, order).best_order)))

\* ------------------------------------------------------------------------
\* Properties of a NoImprovementTerminationCriterion that has stopped

\* the step is a check_new_value with a value that is a strict improvement
\* on every value that was checked before it
ChecksImprovingValue ==
    /\ Len(hooks'.values) = Len(hooks.values) + 1
    /\ IsImprovement(hooks'.values, Len(hooks'.values),
                     criterion._function = "bigger")

\* C37 as stated: once keep_running() of a NoImprovementTerminationCriterion
\* is false, it is false after every further check_new_value and
\* iteration_done, a check_new_value with a strictly improving value included
NoImprovementStopIsStable ==
    [][ ( /\ criterion.class = "NoImprovementTerminationCriterion"
          /\ ~keep_running(criterion) )
        => ~keep_running(criterion') ]_vars

\* C37 as amended: once keep_running() of a NoImprovementTerminationCriterion
\* is false, it stays false after iteration_done and after a check_new_value
\* whose value is no strict improvement on the best value seen; a
\* check_new_value with a strictly improving value sets the counter to -1 and
\* keep_running() is true again
NoImprovementStopUntilImprovement ==
    [][ ( /\ criterion.class = "NoImprovementTerminationCriterion"
          /\ ~keep_running(criterion) )
        => IF ChecksImprovingValue
           THEN criterion'._iterations = -1 /\ keep_running(criterion')
           ELSE ~keep_running(criterion') ]_vars

\* a criterion with bound 1 was stopped by an iteration_done and runs again
\* after a check_new_value
NoImprovementStopUntilImprovementWitness ==
    /\ criterion.class = "NoImprovementTerminationCriterion"
    /\ criterion._max_iterations = 1
    /\ loop.pc = "free"
    /\ Len(history.made) = 2
    /\ history.made[1] = <<"iteration_done">>
    /\ history.made[2][1] = "check_new_value"
    /\ keep_running(criterion)

\* ------------------------------------------------------------------------
\* Properties of TspRunner

\* C40: the loop of an algorithm that was given the criterion that
\* TspRunner builds from max_iter_no_impr = N alone goes on while fewer than
\* N iterations have passed since the last decrease of the value (increase
\* when minimise is False) and ends when there are N
TspRunnerImprovementDirection ==
    criterion.class = "NoImprovementTerminationCriterion" =>
        LET since == SinceImprovement(hooks.values, ~search.minimise)
        IN  /\ loop.pc = "check" => since < search.kwargs["max_iter_no_impr"]
            /\ loop.pc = "exit" => since = search.kwargs["max_iter_no_impr"]

\* ------------------------------------------------------------------------
\* Termination of get_random_move

\* C38: with a fair random source every call of get_random_move of
\* ArraySwap, ArrayReverseOrder and TspArraySwap returns, for every size: it
\* does not raise and it does not stay in its loop
GetRandomMoveReturns ==
    /\ [](rnd_result.raised \in {"NotCalled", "None"})
    /\ (rnd.pc = "loop") ~> (rnd.pc = "idle")

\* ------------------------------------------------------------------------
\* Properties of the sweep of SteepestDescent.run

\* a is strictly better than b in the direction of the SteepestDescent
DescentBetter(a, b) == IF search.self.minimise THEN a < b ELSE a > b

\* the place in the moves of get_moves() of the move that the last sweep of
\* SteepestDescent.run selected, 0 if it is none of them
SelectedPlace(last) ==
    LET moves == get_moves(move_func).value
        places == {k \in DOMAIN moves : moves[k] = last.best_found_move}
    IN  IF places = {} THEN 0 ELSE CHOOSE k \in places : TRUE

\* C31: in each iteration of SteepestDescent.run the selected move is the
\* move of get_moves() with the most improving delta in the direction of the
\* search, and of the moves with that delta the one that is enumerated
\* first; the selection is a function of the matrix, the order and the move
\* type, so two runs from the same inputs select the same moves
SteepestDescentSelectsBestOfSweep ==
    (search.self.class = "SteepestDescent" /\ history.last # <<>>) =>
        LET last == history.last[1]
            moves == get_moves(move_func).value
            k == SelectedPlace(last)
        IN  IF moves = <<>>
            THEN last.best_found_move = <<>>
            ELSE /\ k \in DOMAIN moves
                 /\ last.best_found_delta = Number(DeltaOf(last, moves[k]))
                 /\ \A j \in DOMAIN moves :
                        /\ ~DescentBetter(DeltaOf(last, moves[j]),
                                          DeltaOf(last, moves[k]))
                        /\ j < k => DescentBetter(DeltaOf(last, moves[k]),
                                                  DeltaOf(last, moves[j]))

\* a sweep in which a move that is enumerated later has the same delta as
\* the selected move, and a worse move was enumerated before it
SteepestDescentSelectsBestOfSweepWitness ==
    /\ search.self.class = "SteepestDescent"
    /\ search.pc = "returned"
    /\ history.last # <<>>
    /\ LET last == history.last[1]
           moves == get_moves(move_func).value
           k == SelectedPlace(last)
       IN  /\ k > 1
           /\ DescentBetter(DeltaOf(last, moves[k]), DeltaOf(last, moves[1]))
           /\ \E j \in DOMAIN moves :
                /\ j > k
                /\ DeltaOf(last, moves[j]) = DeltaOf(last, moves[k])

\* C32: when SteepestDescent.run with the default termination criterion
\* returns, no move of the neighbourhood made on the returned best order
\* gives a strictly better value: the search does not stop while a strictly
\* improving move is available
SteepestDescentReturnsLocalOptimum ==
    ( /\ search.self.class = "SteepestDescent"
      /\ search.self.default
      /\ search.pc = "returned" ) =>
        LET best_order == AsArray(search.result.best_order)
            moves == get_moves(move_func).value
        IN  \A k \in DOMAIN moves :
                ~DescentBetter(
                    TspEvaluationFunction_evaluate(
                        eval_func, move_method(move_func, best_order,
                                               moves[k])),
                    TspEvaluationFunction_evaluate(eval_func, best_order))

\* ------------------------------------------------------------------------
\* Properties of the temperature levels of SimulatedAnnealing.run

\* the number of trials of the temperature of the search
LevelBudget ==
    CnstIterationsTempFunction_get_iterations(
        search.self._iterations_for_temp_f, search.self._temperature)

\* a step of run is a trial
IsTrial == history'.trials = history.trials + 1

\* a step of run ends the trials of a temperature
LeavesLevel == search.pc = "trials" /\ search'.pc = "test"

\* C33: at each temperature SimulatedAnnealing.run makes exactly
\* get_iterations(temperature) trials unless keep_running() is false earlier,
\* and then it makes no further trial; every trial calls check_new_value and
\* iteration_done once; after the trials of a temperature the temperature
\* is lowered once to alpha * temperature (alpha = 0.75) and the new
\* temperature is passed to check_variable; the temperature changes at no
\* other point
SimulatedAnnealingLevels ==
    [][ LET old == search.self._temperature
            new == search'.self._temperature
        IN  /\ IsTrial =>
                /\ history.level < LevelBudget
                /\ keep_running(criterion)
                /\ Len(hooks'.values) = Len(hooks.values) + 1
                /\ hooks'.values[Len(hooks'.values)] = search'.base_value
                /\ hooks'.iteration_done = hooks.iteration_done + 1
                /\ hooks'.others = hooks.others
                /\ new = old
            /\ LeavesLevel =>
                /\ history.level = LevelBudget \/ ~keep_running(criterion)
                /\ new.num * 4 * old.den = 3 * old.num * new.den
                /\ new # old
                /\ history'.variables = Append(history.variables, new)
                /\ hooks'.others = hooks.others + 1
                /\ hooks'.values = hooks.values
                /\ hooks'.iteration_done = hooks.iteration_done
            /\ (new # old \/ history'.variables # history.variables)
                    => LeavesLevel
      ]_vars

\* a run has returned after one temperature with its two trials, each
\* reported once, and one lowering of the temperature
SimulatedAnnealingLevelsWitness ==
    /\ search.pc = "returned"
    /\ LevelBudget = 2
    /\ history.trials = 2
    /\ history.variables = <<[num |-> 6000, den |-> 4]>>
    /\ hooks.iteration_done = 2
    /\ Len(hooks.values) = 3

\* ------------------------------------------------------------------------
\* Properties of the scan of TabuSearch.run

\* the scan of TabuSearch.run over the first k moves of get_moves(), from
\* the live array and the tabu list as they are
ScanOfFirst(k) ==
    TabuSearch_sweep(
        search.self, TspSolution_state(order),
        SubSeq(get_moves(move_func).value, 1, k), 1, order, tabu,
        [best_found_delta |-> search.self._best_found_delta_base_value,
         best_found_move |-> <<>>,
         best_found_diff |-> <<>>,
         live |-> order])

\* C34: in the scan of TabuSearch.run every candidate move is undone before
\* the next one is examined, so that after any number of candidates the
\* live array is the array of the start of the scan and every delta is the
\* delta of a move on that array; after the iteration the live array is
\* the array of before it with the one committed move made, or that array
\* itself when no move is committed
TabuSearchScanIsAtomic ==
    /\ ( /\ search.self.class = "TabuSearch"
         /\ search.pc = "body"
         /\ get_moves(move_func).raised = "None" ) =>
            \A k \in 0..Len(get_moves(move_func).value) :
                LET scan == ScanOfFirst(k)
                IN  /\ scan.live = order
                    /\ scan.best_found_move # <<>> =>
                        scan.best_found_delta =
                            Number(DeltaOf([order |-> order],
                                           scan.best_found_move))
    /\ ( /\ search.self.class = "TabuSearch"
         /\ search.pc \in {"test", "return", "returned"}
         /\ history.last # <<>> ) =>
            LET last == history.last[1]
            IN  order = IF last.best_found_move = <<>>
                        THEN last.order
                        ELSE move_method(move_func, last.order,
                                         last.best_found_move)

\* a scan of at least three candidates, one of them to a tabu state, is
\* about to start after two committed moves
TabuSearchScanIsAtomicWitness ==
    /\ search.self.class = "TabuSearch"
    /\ search.pc = "body"
    /\ history.sweeps >= 2
    /\ history.last[1].best_found_move # <<>>
    /\ get_moves(move_func).raised = "None"
    /\ Len(get_moves(move_func).value) >= 3
    /\ \E k \in DOMAIN get_moves(move_func).value :
            TabuList_contains(
                tabu, StateAfter([order |-> order],
                                 get_moves(move_func).value[k]))
    /\ ScanOfFirst(Len(get_moves(move_func).value)).best_found_move # <<>>

ReportsIteration ==
    CASE search.self.class = "TabuSearch" ->
            Len(history'.committed) = Len(history.committed) + 1
      [] search.self.class = "SimulatedAnnealing" ->
            history'.trials = history.trials + 1
      [] OTHER -> history'.sweeps = history.sweeps + 1

\* C36: every strategy calls check_new_value exactly once, with its running
\* value, and iteration_done exactly once in every iteration of its loop
\* (SteepestDescent and VariableNeighbourhood per sweep, SimulatedAnnealing
\* per trial, TabuSearch per committed move) and at no other point of the
\* loop, so that a MustImproveTerminationCriterion stops the run only when
\* the reported value is no improvement on the value reported before it
TerminationHookProtocol ==
    [][ /\ ReportsIteration =>
            /\ hooks'.values = Append(hooks.values, search'.base_value)
            /\ hooks'.iteration_done = hooks.iteration_done + 1
        /\ ( /\ search.pc # "start"
             /\ \/ hooks'.values # hooks.values
                \/ hooks'.iteration_done # hooks.iteration_done )
            => ReportsIteration
        /\ ( /\ search.pc # "start"
             /\ criterion.class = "MustImproveTerminationCriterion"
             /\ keep_running(criterion)
             /\ ~keep_running(criterion') )
            => ~Call(criterion._function,
                     hooks.values[Len(hooks.values)], search'.base_value)
      ]_vars

\* the strategy minimises
Minimising ==
    CASE search.self.class = "TabuSearch" -> search.self._minimise
      [] search.self.class = "VariableNeighbourhood" ->
            search.self._function = "smaller"
      [] OTHER -> search.self.minimise

\* value a is strictly better than value b for the strategy
BetterValue(a, b) ==
    /\ a.inf = 0
    /\ b.inf = 0
    /\ IF Minimising THEN a.num < b.num ELSE a.num > b.num

\* C39: during a run of SteepestDescent, SimulatedAnnealing, TabuSearch or
\* VariableNeighbourhood, after the first set_as_best the recorded
\* best_order_value only changes to a strictly better value, and the best
\* value that is returned is not worse than the evaluation of the starting
\* order
BestValueIsMonotone ==
    /\ [][ ( /\ search.pc # "start"
             /\ solution'.best_order_value # solution.best_order_value )
           => BetterValue(solution'.best_order_value,
                          solution.best_order_value) ]_vars
    /\ [](search.pc \in {"return", "returned"} =>
            /\ ~BetterValue(hooks.values[1], solution.best_order_value)
            /\ HasAttr(search, "result") =>
                    search.result.best_value = solution.best_order_value)

\* a run has returned a best value that is better than the value of the
\* starting order, after a last move that made the running value worse than
\* the best value
BestValueIsMonotoneWitness ==
    /\ search.pc = "returned"
    /\ search.self.class = "TabuSearch"
    /\ BetterValue(search.result.best_value, hooks.values[1])
    /\ BetterValue(search.result.best_value, search.base_value)

====
